---- MODULE Spec2Model ----
(***************************************************************************)
(* A model of the xendbg introspection and control engine:                 *)
(*   - HVMMonitor    (src/src/Xen/HVMMonitor.cpp): the vm_event ring and   *)
(*                   the drain-and-dispatch routine read_events;           *)
(*   - Domain        (src/src/Xen/Domain.cpp): the per-vCPU pause tracker, *)
(*                   the software page-table walker and the control plane; *)
(*   - DomainHVM     (src/src/Xen/DomainHVM.cpp): debugging toggles and    *)
(*                   register contexts.                                    *)
(* The parts share no state in the code; each has its own specification    *)
(* (MonitorSpec, DispatchSpec, RingSpec, LifecycleSpec, DomainSpec,        *)
(* TranslateSpec, ControlSpec, ContextSpec) over the one tuple of          *)
(* variables, the other parts' variables staying at rest.                  *)
(***************************************************************************)
EXTENDS Integers, Sequences, FiniteSets, TLC

VARIABLES
  \* ---- HVMMonitor ----
  _back_ring,               \* vm_event_back_ring_t: [req_cons, rsp_prod_pvt]
  sring,                    \* the shared ring page: [req_prod, rsp_prod, req_event, rsp_event, ring]
  hv_rsp_cons,              \* the hypervisor's private response-consumer index
  _poll,                    \* TRUE while the poll handle is started
  _on_software_breakpoint,  \* TRUE iff a callback is held
  events,                   \* what the last read_events call did, in order
  last_read,                \* the last read_events call: how it ended ("none" | "returned" |
                            \* "threw"), the requests pending and the callback held when it
                            \* began, and the step at which its callback called stop(), if any
  \* ---- Domain: pause tracker ----
  max_vcpu_id,              \* get_dominfo().max_vcpu_id
  _vcpu_pause_state,        \* [0..max_vcpu_id -> BOOLEAN], TRUE = paused
  hypercalls,               \* every (un)pause domctl issued so far, in order
  last_op,                  \* the last pause-tracker operation, the positions of the tracker
                            \* it indexed and how it ended
  \* ---- Domain: get_page_table_entry ----
  pt_in,                    \* the inputs of the translation
  pt_out,                   \* its outcome, [kind |-> "none"] before the call
  \* ---- Domain / DomainHVM: the control plane ----
  dominfo,                  \* get_dominfo(): the live status of the domain, [paused]
  xc_calls,                 \* every call made on the control channel so far, in order
  last_ctl,                 \* the last control-plane operation and how it ended
  hvm_hw_cpu,               \* struct hvm_hw_cpu: the raw state the hypervisor holds for a vCPU
  \* ---- HVMMonitor: construction and destruction ----
  monitor_life,             \* the monitor object: its phase, its _ring_page and _port members,
                            \* and the enable_monitor call of its constructor
  resources                 \* every call that acquires or releases the ring page or the port

monitor_vars == <<_back_ring, sring, hv_rsp_cons, _poll, _on_software_breakpoint,
                  events, last_read>>
domain_vars  == <<max_vcpu_id, _vcpu_pause_state, hypercalls, last_op>>
pt_vars      == <<pt_in, pt_out>>
control_vars == <<dominfo, xc_calls, last_ctl, hvm_hw_cpu>>
lifecycle_vars == <<monitor_life, resources>>
vars == <<_back_ring, sring, hv_rsp_cons, _poll, _on_software_breakpoint,
          events, last_read,
          max_vcpu_id, _vcpu_pause_state, hypercalls, last_op,
          pt_in, pt_out,
          dominfo, xc_calls, last_ctl, hvm_hw_cpu,
          monitor_life, resources>>

Min(a, b) == IF a < b THEN a ELSE b

(***************************************************************************)
(*                              HVMMonitor                                 *)
(***************************************************************************)

\* Number of slots of the ring (RING_SIZE of the back ring), scaled down.
RingSize == 2
\* Total number of requests the hypervisor publishes in a run.
MaxRequests == 3

X86_TRAP_INT3 == 3
VM_EVENT_INTERFACE_VERSION == 3
VM_EVENT_FLAG_VCPU_PAUSED == "VCPU_PAUSED"

\* The reasons read_events switches on.
SwitchReasons == {"MEM_ACCESS", "SOFTWARE_BREAKPOINT", "PRIVILEGED_CALL", "SINGLESTEP",
                  "DEBUG_EXCEPTION", "CPUID", "DESCRIPTOR_ACCESS"}
VM_EVENT_REASON_SOFTWARE_BREAKPOINT == "SOFTWARE_BREAKPOINT"
\* Reasons other than the software breakpoint: two the switch has an empty
\* case for and one it has no case for.
OtherReasons == {"MEM_ACCESS", "SINGLESTEP", "WRITE_CTRLREG"}

\* vm_event_request_t: version, flags, reason, vcpu_id and, for a software
\* breakpoint, u.software_breakpoint.{type, insn_length} (0 otherwise).
Request(version, flags, reason, vcpu_id, type, insn_length) ==
  [version |-> version, flags |-> flags, reason |-> reason, vcpu_id |-> vcpu_id,
   type |-> type, insn_length |-> insn_length]

\* The requests the hypervisor may publish: software breakpoints of the
\* supported version and of others, and requests of the supported version
\* with other reasons, OtherReasons being those of them the model draws.
Requests ==
  { Request(v, {VM_EVENT_FLAG_VCPU_PAUSED}, VM_EVENT_REASON_SOFTWARE_BREAKPOINT, 1, 6, 1)
      : v \in {VM_EVENT_INTERFACE_VERSION, VM_EVENT_INTERFACE_VERSION + 1} }
  \cup
  { Request(v, {VM_EVENT_FLAG_VCPU_PAUSED, "FOREIGN"}, VM_EVENT_REASON_SOFTWARE_BREAKPOINT, 0, 4, 2)
      : v \in {VM_EVENT_INTERFACE_VERSION, VM_EVENT_INTERFACE_VERSION - 1} }
  \cup
  { Request(VM_EVENT_INTERFACE_VERSION, {}, r, 0, 0, 0)
      : r \in OtherReasons }

\* A slot of the ring before anything was written to it.
EmptySlot == [empty |-> TRUE]

\* RING_GET_REQUEST / RING_GET_RESPONSE: the slot of an index.
RingSlot(idx) == idx % RingSize

\* The monitor's view while a call runs: the back ring, the shared ring and
\* the record of what the call has done.
\*   m.br  = _back_ring, m.sr = sring, m.ev = events, m.thrown = an exception left the call
\*   m.req, m.rsp = the locals of read_events' loop body

\* RING_HAS_UNCONSUMED_REQUESTS(&_back_ring): the number of requests that can
\* be consumed, limited by the room left for their responses.
RING_HAS_UNCONSUMED_REQUESTS(m) ==
  Min(m.sr.req_prod - m.br.req_cons,
      RingSize - (m.br.req_cons - m.br.rsp_prod_pvt))

\* A get_request that publishes the consumed cursor itself as the threshold.
get_request_event_at_cons(m) ==
  LET req_cons == m.br.req_cons
      req      == m.sr.ring[RingSlot(req_cons)]
  IN  [m EXCEPT !.req = req,
                !.br.req_cons = req_cons + 1,
                !.sr.req_event = req_cons + 1,
                !.ev = Append(@, [op |-> "get_request", req |-> req])]

\* HVMMonitor::get_request
get_request(m) ==
  LET req_cons == m.br.req_cons
      req      == m.sr.ring[RingSlot(req_cons)]
  IN  [m EXCEPT !.req = req,
                !.br.req_cons = req_cons + 1,
                !.sr.req_event = (req_cons + 1) + 1,
                !.ev = Append(@, [op |-> "get_request", req |-> req])]

\* A put_response that pushes its response twice.
put_response_twice(m, rsp) ==
  LET rsp_prod == m.br.rsp_prod_pvt
  IN  [m EXCEPT !.sr.ring[RingSlot(rsp_prod)] = rsp,
                !.br.rsp_prod_pvt = rsp_prod + 2,
                !.sr.rsp_prod = rsp_prod + 2,
                !.ev = Append(@, [op |-> "put_response", rsp |-> rsp])]

\* HVMMonitor::put_response
put_response(m, rsp) ==
  LET rsp_prod == m.br.rsp_prod_pvt
  IN  [m EXCEPT !.sr.ring[RingSlot(rsp_prod)] = rsp,
                !.br.rsp_prod_pvt = rsp_prod + 1,
                !.sr.rsp_prod = rsp_prod + 1,
                !.ev = Append(@, [op |-> "put_response", rsp |-> rsp])]

\* A response that carries the request's flags over unmasked (rsp.flags = req.flags).
Response_flags_copied(req) ==
  [version |-> VM_EVENT_INTERFACE_VERSION,
   vcpu_id |-> req.vcpu_id,
   flags   |-> req.flags,
   reason  |-> req.reason]

\* The response read_events prepares for a request (lines 88-93).
Response(req) ==
  [version |-> VM_EVENT_INTERFACE_VERSION,
   vcpu_id |-> req.vcpu_id,
   flags   |-> req.flags \cap {VM_EVENT_FLAG_VCPU_PAUSED},
   reason  |-> req.reason]

\* _xendevicemodel.inject_event(_domain, vcpu_id, X86_TRAP_INT3, type, -1, insn_length, 0);
\* ok = FALSE when the call raises.
inject_event(m, req, ok) ==
  [m EXCEPT !.ev = Append(@, [op |-> "inject_event", vcpu_id |-> req.vcpu_id,
                              vector |-> X86_TRAP_INT3, type |-> req.type,
                              insn_length |-> req.insn_length, ok |-> ok]),
            !.thrown = ~ok]

\* _on_software_breakpoint(req); ok = FALSE when the callback raises.
invoke_callback(m, req, ok) ==
  [m EXCEPT !.ev = Append(@, [op |-> "callback", req |-> req, ok |-> ok]),
            !.thrown = ~ok]

\* HVMMonitor::stop called while read_events runs: the poll handle is stopped;
\* m.stopped_at keeps how many steps the call had made by then.
poll_stop(m) ==
  [m EXCEPT !.poll = FALSE, !.stopped_at = Len(m.ev)]

\* What the callback does to the monitor besides returning or raising: with
\* fault = "stop" it calls stop() before it returns.
callback_effect(m, fault) ==
  IF fault = "stop" /\ ~m.thrown THEN poll_stop(m) ELSE m

\* A dispatch that invokes the callback before it injects the trap.
software_breakpoint_case_callback_first(m, cb, fault) ==
  LET m1 == IF cb THEN callback_effect(invoke_callback(m, m.req, fault # "callback"), fault)
            ELSE m
  IN  IF m1.thrown THEN m1 ELSE inject_event(m1, m.req, fault # "inject_event")

\* case VM_EVENT_REASON_SOFTWARE_BREAKPOINT of read_events (lines 101-108);
\* fault names the step that raises, "none", "inject_event" or "callback", or
\* is "stop" when the callback calls stop().
software_breakpoint_case(m, cb, fault) ==
  LET m1 == inject_event(m, m.req, fault # "inject_event")
  IN  IF m1.thrown THEN m1
      ELSE IF cb THEN callback_effect(invoke_callback(m1, m.req, fault # "callback"), fault)
      ELSE m1

\* A loop body whose case VM_EVENT_REASON_MEM_ACCESS lacks its break and
\* falls through into the software breakpoint case.
read_events_body_fallthrough(m, cb, fault) ==
  LET m1  == get_request(m)
      req == m1.req
      rsp == Response(req)
  IN  IF req.version # VM_EVENT_INTERFACE_VERSION
      THEN m1
      ELSE LET m2 == IF req.reason \in {"MEM_ACCESS", VM_EVENT_REASON_SOFTWARE_BREAKPOINT}
                     THEN software_breakpoint_case(m1, cb, fault)
                     ELSE m1
           IN  IF m2.thrown THEN m2 ELSE put_response(m2, rsp)

\* One iteration of read_events' loop (lines 86-121).
read_events_body(m, cb, fault) ==
  LET m1  == get_request(m)
      req == m1.req
      rsp == Response(req)
  IN  IF req.version # VM_EVENT_INTERFACE_VERSION
      THEN m1                                   \* continue
      ELSE LET m2 == IF req.reason = VM_EVENT_REASON_SOFTWARE_BREAKPOINT
                     THEN software_breakpoint_case(m1, cb, fault)
                     ELSE m1
           IN  IF m2.thrown THEN m2 ELSE put_response(m2, rsp)

\* A read_events that handles one request per notification (if for while).
read_events_once(m, cb, fault, k) ==
  IF RING_HAS_UNCONSUMED_REQUESTS(m) = 0 THEN m
  ELSE read_events_body(m, cb, IF fault.k = k THEN fault.step ELSE "none")

\* A read_events whose loop ends as soon as the poll handle is stopped.
RECURSIVE read_events_while_polling(_, _, _, _)
read_events_while_polling(m, cb, fault, k) ==
  IF RING_HAS_UNCONSUMED_REQUESTS(m) = 0 \/ ~m.poll THEN m
  ELSE LET m1 == read_events_body(m, cb, IF fault.k = k THEN fault.step ELSE "none")
       IN  IF m1.thrown THEN m1 ELSE read_events_while_polling(m1, cb, fault, k + 1)

\* HVMMonitor::read_events: the loop, k counting its iterations; the fault,
\* if any, strikes in iteration fault.k at step fault.step.
RECURSIVE read_events_loop(_, _, _, _)
read_events_loop(m, cb, fault, k) ==
  IF RING_HAS_UNCONSUMED_REQUESTS(m) = 0 THEN m
  ELSE LET m1 == read_events_body(m, cb, IF fault.k = k THEN fault.step ELSE "none")
       IN  IF m1.thrown THEN m1 ELSE read_events_loop(m1, cb, fault, k + 1)

\* What a read_events call can meet: nothing, or the injection or the callback
\* of its k-th request raising, or the callback of its first request calling
\* stop().
Faults ==
  {[k |-> 0, step |-> "none"]} \cup
  [k : 1..RingSize, step : {"inject_event", "callback"}] \cup
  {[k |-> 1, step |-> "stop"]}

MonitorInit ==
  /\ _back_ring = [req_cons |-> 0, rsp_prod_pvt |-> 0]
  /\ sring = [req_prod |-> 0, rsp_prod |-> 0, req_event |-> 1, rsp_event |-> 1,
              ring |-> [i \in 0..(RingSize - 1) |-> EmptySlot]]
  /\ hv_rsp_cons = 0
  /\ _poll = FALSE
  /\ _on_software_breakpoint = FALSE
  /\ events = <<>>
  /\ last_read = [result |-> "none"]

\* HVMMonitor::start
start ==
  /\ _poll' = TRUE
  /\ UNCHANGED <<_back_ring, sring, hv_rsp_cons, _on_software_breakpoint, events, last_read,
               domain_vars, pt_vars, control_vars, lifecycle_vars>>

\* HVMMonitor::stop
stop ==
  /\ _poll' = FALSE
  /\ UNCHANGED <<_back_ring, sring, hv_rsp_cons, _on_software_breakpoint, events, last_read,
               domain_vars, pt_vars, control_vars, lifecycle_vars>>

\* HVMMonitor::on_software_breakpoint(callback)
on_software_breakpoint ==
  /\ _on_software_breakpoint' = TRUE
  /\ UNCHANGED <<_back_ring, sring, hv_rsp_cons, _poll, events, last_read,
               domain_vars, pt_vars, control_vars, lifecycle_vars>>

\* The poll handle's callback: a notification on the event channel runs
\* read_events to its end (normal return or exception).
read_events ==
  /\ _poll
  /\ \E fault \in Faults :
       LET m0 == [br |-> _back_ring, sr |-> sring, ev |-> <<>>, thrown |-> FALSE,
                  req |-> EmptySlot, poll |-> _poll, stopped_at |-> 0]
           m  == read_events_loop(m0, _on_software_breakpoint, fault, 1)
       IN  /\ _poll' = m.poll
           /\ _back_ring' = m.br
           /\ sring' = m.sr
           /\ events' = m.ev
           /\ last_read' = [result   |-> IF m.thrown THEN "threw" ELSE "returned",
                            pending  |-> sring.req_prod - _back_ring.req_cons,
                            left     |-> m.sr.req_prod - m.br.req_cons,
                            callback |-> _on_software_breakpoint,
                            stopped_at |-> m.stopped_at]
  /\ UNCHANGED <<hv_rsp_cons, _on_software_breakpoint, domain_vars, pt_vars, control_vars, lifecycle_vars>>

\* The hypervisor puts a request on the ring: it owns req_prod and only
\* produces while the ring has a free slot (a slot is free once its response
\* was consumed).
HvPutRequest ==
  /\ sring.req_prod < MaxRequests
  /\ sring.req_prod - hv_rsp_cons < RingSize
  /\ \E req \in Requests :
       sring' = [sring EXCEPT !.ring[RingSlot(sring.req_prod)] = req,
                              !.req_prod = @ + 1]
  /\ UNCHANGED <<_back_ring, hv_rsp_cons, _poll, _on_software_breakpoint, events, last_read,
               domain_vars, pt_vars, control_vars, lifecycle_vars>>

\* The hypervisor consumes a published response.
HvGetResponse ==
  /\ hv_rsp_cons < sring.rsp_prod
  /\ hv_rsp_cons' = hv_rsp_cons + 1
  /\ UNCHANGED <<_back_ring, sring, _poll, _on_software_breakpoint, events, last_read,
               domain_vars, pt_vars, control_vars, lifecycle_vars>>

\* The monitor's view of the ring before a single ring operation.
RingNow ==
  [br |-> _back_ring, sr |-> sring, ev |-> <<>>, thrown |-> FALSE,
   req |-> EmptySlot, poll |-> _poll, stopped_at |-> 0]

RingFinish(m) ==
  /\ _back_ring' = m.br
  /\ sring' = m.sr
  /\ events' = m.ev
  /\ UNCHANGED <<hv_rsp_cons, _poll, _on_software_breakpoint, last_read,
                 domain_vars, pt_vars, control_vars, lifecycle_vars>>

\* One call of get_request, made as read_events makes it: while there is a
\* request to consume.
get_request_call ==
  /\ RING_HAS_UNCONSUMED_REQUESTS(RingNow) > 0
  /\ RingFinish(get_request(RingNow))

\* One call of put_response, made as read_events makes it: for a request
\* consumed and not answered yet.
put_response_call ==
  /\ _back_ring.rsp_prod_pvt < _back_ring.req_cons
  /\ \E req \in Requests : RingFinish(put_response(RingNow, Response(req)))

RingNext ==
  \/ HvPutRequest
  \/ HvGetResponse
  \/ get_request_call
  \/ put_response_call

\* Requests of the supported version, one for each reason the switch has a
\* case for and one for a reason it has none for.
DispatchRequests ==
  { Request(VM_EVENT_INTERFACE_VERSION, {VM_EVENT_FLAG_VCPU_PAUSED}, r, 1, 0, 1)
      : r \in SwitchReasons \cup {"WRITE_CTRLREG"} }

\* A started monitor whose ring the hypervisor has filled with requests,
\* with or without a callback held.
DispatchInit ==
  /\ _back_ring = [req_cons |-> 0, rsp_prod_pvt |-> 0]
  /\ \E ring \in [0..(RingSize - 1) -> DispatchRequests] :
       sring = [req_prod |-> RingSize, rsp_prod |-> 0, req_event |-> 1, rsp_event |-> 1,
                ring |-> ring]
  /\ hv_rsp_cons = 0
  /\ _poll = TRUE
  /\ _on_software_breakpoint \in BOOLEAN
  /\ events = <<>>
  /\ last_read = [result |-> "none"]

DispatchNext == read_events

MonitorNext ==
  \/ start
  \/ stop
  \/ on_software_breakpoint
  \/ read_events
  \/ HvPutRequest
  \/ HvGetResponse

(***************************************************************************)
(*                        Domain: the pause tracker                        *)
(***************************************************************************)

\* Largest max_vcpu_id a domain of the model has.
MaxVcpuId == 3
\* Total number of (un)pause hypercalls issued in a run.
MaxHypercalls == 3

XEN_DOMCTL_gdbsx_pausevcpu   == "XEN_DOMCTL_gdbsx_pausevcpu"
XEN_DOMCTL_gdbsx_unpausevcpu == "XEN_DOMCTL_gdbsx_unpausevcpu"

\* The tracker while an operation runs:
\*   d.ps = _vcpu_pause_state, d.issued = the hypercalls the operation has
\*   issued, d.thrown = an exception left the operation, d.indexed = the
\*   positions of _vcpu_pause_state the operation has indexed.
\* failAt = k makes the k-th hypercall of the operation fail (0: none fails).

\* hypercall_domctl(hypercall, [vcpu_id](auto &u) { u.gdbsx_pauseunp_vcpu.vcpu = vcpu_id; })
hypercall_domctl(d, hypercall, vcpu_id, failAt) ==
  [d EXCEPT !.issued = Append(@, [cmd |-> hypercall, vcpu |-> vcpu_id]),
            !.thrown = (Len(d.issued) + 1 = failAt)]

\* _vcpu_pause_state[vcpu_id], read: std::vector<bool>::operator[] checks no
\* range; past the end of the vector the behaviour is undefined and the read
\* yields d.beyond, whatever the storage past the last bit holds.
bit_of(d, vcpu_id) ==
  IF vcpu_id \in DOMAIN d.ps THEN d.ps[vcpu_id] ELSE d.beyond

\* _vcpu_pause_state[vcpu_id] = b: past the end, the write lands outside the
\* tracker's bits.
set_bit(d, vcpu_id, b) ==
  IF vcpu_id \in DOMAIN d.ps THEN [d EXCEPT !.ps[vcpu_id] = b] ELSE [d EXCEPT !.beyond = b]

\* A pause_unpause_vcpu that issues the hypercall whatever the tracker says.
pause_unpause_vcpu_unguarded(d, hypercall, vcpu_id, failAt) ==
  hypercall_domctl(set_bit(d, vcpu_id, hypercall = XEN_DOMCTL_gdbsx_pausevcpu),
                   hypercall, vcpu_id, failAt)

\* Domain::pause_unpause_vcpu
pause_unpause_vcpu(d, hypercall, vcpu_id, failAt) ==
  LET d0 == [d EXCEPT !.indexed = @ \cup {vcpu_id}]
  IN  IF hypercall = XEN_DOMCTL_gdbsx_pausevcpu
      THEN IF bit_of(d0, vcpu_id)
           THEN d0
           ELSE hypercall_domctl(set_bit(d0, vcpu_id, TRUE), hypercall, vcpu_id, failAt)
      ELSE IF hypercall = XEN_DOMCTL_gdbsx_unpausevcpu
      THEN IF bit_of(d0, vcpu_id)
           THEN hypercall_domctl(set_bit(d0, vcpu_id, FALSE), hypercall, vcpu_id, failAt)
           ELSE d0
      ELSE [d EXCEPT !.thrown = TRUE]           \* throw "Unknown domctl!"

\* A pause_unpause_vcpus_except whose loop stops one id early (id < max_vcpu_id).
RECURSIVE pause_unpause_vcpus_except_short(_, _, _, _, _, _)
pause_unpause_vcpus_except_short(d, hypercall, vcpu_id, max, failAt, id) ==
  IF id >= max THEN d
  ELSE IF id = vcpu_id
  THEN pause_unpause_vcpus_except_short(d, hypercall, vcpu_id, max, failAt, id + 1)
  ELSE LET d1 == pause_unpause_vcpu(d, hypercall, id, failAt)
       IN  IF d1.thrown THEN d1
           ELSE pause_unpause_vcpus_except_short(d1, hypercall, vcpu_id, max, failAt, id + 1)

\* Domain::pause_unpause_vcpus_except: the loop from id on.
RECURSIVE pause_unpause_vcpus_except(_, _, _, _, _, _)
pause_unpause_vcpus_except(d, hypercall, vcpu_id, max, failAt, id) ==
  IF id > max THEN d
  ELSE IF id = vcpu_id
  THEN pause_unpause_vcpus_except(d, hypercall, vcpu_id, max, failAt, id + 1)
  ELSE LET d1 == pause_unpause_vcpu(d, hypercall, id, failAt)
       IN  IF d1.thrown THEN d1
           ELSE pause_unpause_vcpus_except(d1, hypercall, vcpu_id, max, failAt, id + 1)

\* A pause_unpause_all_vcpus whose loop runs one id too far (id <= max_vcpu_id + 1).
RECURSIVE pause_unpause_all_vcpus_one_more(_, _, _, _, _)
pause_unpause_all_vcpus_one_more(d, hypercall, max, failAt, id) ==
  IF id > max + 1 THEN d
  ELSE LET d1 == pause_unpause_vcpu(d, hypercall, id, failAt)
       IN  IF d1.thrown THEN d1
           ELSE pause_unpause_all_vcpus_one_more(d1, hypercall, max, failAt, id + 1)

\* Domain::pause_unpause_all_vcpus: the loop from id on.
RECURSIVE pause_unpause_all_vcpus(_, _, _, _, _)
pause_unpause_all_vcpus(d, hypercall, max, failAt, id) ==
  IF id > max THEN d
  ELSE LET d1 == pause_unpause_vcpu(d, hypercall, id, failAt)
       IN  IF d1.thrown THEN d1
           ELSE pause_unpause_all_vcpus(d1, hypercall, max, failAt, id + 1)

\* Domain::Domain: the tracker is resized to max_vcpu_id + 1 bits, all clear.
DomainInit ==
  /\ max_vcpu_id \in 0..MaxVcpuId
  /\ _vcpu_pause_state = [v \in 0..max_vcpu_id |-> FALSE]
  /\ hypercalls = <<>>
  /\ last_op = [op |-> "none"]

\* The state an operation starts from, beyond being the bit the storage
\* holds past the end of the tracker.
TrackerWith(beyond) ==
  [ps |-> _vcpu_pause_state, issued |-> <<>>, thrown |-> FALSE, beyond |-> beyond,
   indexed |-> {}]
TrackerNow == TrackerWith(FALSE)

\* The vcpu ids pause_vcpu and unpause_vcpu are called with: the domain's
\* vCPUs and the first id past them.
VcpuArgs == 0..(max_vcpu_id + 1)

\* An operation named op with argument vcpu_id ends in d.
Finish(op, vcpu_id, d) ==
  /\ Len(hypercalls) + Len(d.issued) <= MaxHypercalls
  /\ _vcpu_pause_state' = d.ps
  /\ hypercalls' = hypercalls \o d.issued
  /\ last_op' = [op |-> op, vcpu_id |-> vcpu_id, pre |-> _vcpu_pause_state,
                 issued |-> d.issued, indexed |-> d.indexed,
                 result |-> IF d.thrown THEN "threw" ELSE "returned"]
  /\ UNCHANGED <<max_vcpu_id, monitor_vars, pt_vars, control_vars, lifecycle_vars>>

\* Domain::pause_vcpu
pause_vcpu ==
  \E vcpu_id \in VcpuArgs, failAt \in 0..1, beyond \in BOOLEAN :
    /\ vcpu_id <= max_vcpu_id => ~beyond
    /\ Finish("pause_vcpu", vcpu_id,
              pause_unpause_vcpu(TrackerWith(beyond), XEN_DOMCTL_gdbsx_pausevcpu,
                                 vcpu_id, failAt))

\* Domain::unpause_vcpu
unpause_vcpu ==
  \E vcpu_id \in VcpuArgs, failAt \in 0..1, beyond \in BOOLEAN :
    /\ vcpu_id <= max_vcpu_id => ~beyond
    /\ Finish("unpause_vcpu", vcpu_id,
              pause_unpause_vcpu(TrackerWith(beyond), XEN_DOMCTL_gdbsx_unpausevcpu,
                                 vcpu_id, failAt))

\* Domain::pause_vcpus_except
pause_vcpus_except ==
  \E vcpu_id \in 0..max_vcpu_id, failAt \in 0..(max_vcpu_id + 1) :
    Finish("pause_vcpus_except", vcpu_id,
           pause_unpause_vcpus_except(TrackerNow, XEN_DOMCTL_gdbsx_pausevcpu, vcpu_id,
                                      max_vcpu_id, failAt, 0))

\* Domain::unpause_vcpus_except
unpause_vcpus_except ==
  \E vcpu_id \in 0..max_vcpu_id, failAt \in 0..(max_vcpu_id + 1) :
    Finish("unpause_vcpus_except", vcpu_id,
           pause_unpause_vcpus_except(TrackerNow, XEN_DOMCTL_gdbsx_unpausevcpu, vcpu_id,
                                      max_vcpu_id, failAt, 0))

\* Domain::pause_all_vcpus
pause_all_vcpus ==
  \E failAt \in 0..(max_vcpu_id + 1) :
    Finish("pause_all_vcpus", max_vcpu_id + 1,
           pause_unpause_all_vcpus(TrackerNow, XEN_DOMCTL_gdbsx_pausevcpu,
                                   max_vcpu_id, failAt, 0))

\* Domain::unpause_all_vcpus
unpause_all_vcpus ==
  \E failAt \in 0..(max_vcpu_id + 1) :
    Finish("unpause_all_vcpus", max_vcpu_id + 1,
           pause_unpause_all_vcpus(TrackerNow, XEN_DOMCTL_gdbsx_unpausevcpu,
                                   max_vcpu_id, failAt, 0))

DomainNext ==
  \/ pause_vcpu
  \/ unpause_vcpu
  \/ pause_vcpus_except
  \/ unpause_vcpus_except
  \/ pause_all_vcpus
  \/ unpause_all_vcpus

(***************************************************************************)
(*                    Domain: get_page_table_entry                         *)
(***************************************************************************)

\* A uint64_t is the set of the positions of its set bits (bit 0 the lowest),
\* so that every operation keeps the width of the code's arithmetic.
Word == 0..63
Bits(lo, hi) == lo..hi

And(a, b) == a \cap b
Or(a, b)  == a \cup b
Xor(a, b) == (a \ b) \cup (b \ a)
Not(a)    == Word \ a
Shr(a, n) == {i - n : i \in {j \in a : j >= n}}
Shl(a, n) == {i + n : i \in {j \in a : j + n \in Word}}

\* a + b modulo 2^64, bit by bit from position i with the carry c (0 or 1).
RECURSIVE AddFrom(_, _, _, _)
AddFrom(a, b, i, c) ==
  IF i \notin Word THEN {}
  ELSE LET sum == (IF i \in a THEN 1 ELSE 0) + (IF i \in b THEN 1 ELSE 0) + c
       IN  (IF sum % 2 = 1 THEN {i} ELSE {}) \cup AddFrom(a, b, i + 1, sum \div 2)
Add(a, b) == AddFrom(a, b, 0, 0)

\* -a (unary minus of an unsigned value).
Neg(a) == Add(Not(a), {0})

\* x * size for the two entry sizes, 4 and 8.
MulSize(x, size) == IF size = 4 THEN Shl(x, 2) ELSE Shl(x, 3)

\* The smallest element of a non-empty set of positions.
Lowest(a) == CHOOSE i \in a : \A j \in a : i <= j

\* xc_ffs8 .. xc_ffs64: 1 + the position of the lowest set bit, 0 for 0.
xc_ffs8(x)  == IF And(x, Bits(0, 7)) = {} THEN 0 ELSE Lowest(And(x, Bits(0, 7))) + 1
xc_ffs16(x) == LET h == And(Shr(x, 8), Bits(0, 7))
                   l == And(x, Bits(0, 7))
               IN  IF l # {} THEN xc_ffs8(l) ELSE IF h # {} THEN xc_ffs8(h) + 8 ELSE 0
xc_ffs32(x) == LET h == And(Shr(x, 16), Bits(0, 15))
                   l == And(x, Bits(0, 15))
               IN  IF l # {} THEN xc_ffs16(l) ELSE IF h # {} THEN xc_ffs16(h) + 16 ELSE 0
xc_ffs64(x) == LET h == And(Shr(x, 32), Bits(0, 31))
                   l == And(x, Bits(0, 31))
               IN  IF l # {} THEN xc_ffs32(l) ELSE IF h # {} THEN xc_ffs32(h) + 32 ELSE 0

CR0_PG   == {31}           \* 0x80000000
CR4_PAE  == {1}            \* 0x2
PTE_PSE  == {7}            \* 0x80
EFER_LMA == {10}           \* 0x400
XC_PAGE_SHIFT == 12
PteFrameMask   == Bits(12, 51)                    \* 0x000ffffffffff000

\* Number of page frames of guest memory that hold page tables.
MaxFrame == 2

\* The physical address of frame f (f << 12), for the small f of the model.
RECURSIVE BitsOf(_, _)
BitsOf(n, i) == IF n = 0 THEN {} ELSE (IF n % 2 = 1 THEN {i} ELSE {}) \cup BitsOf(n \div 2, i + 1)
FrameAddr(f) == BitsOf(f, XC_PAGE_SHIFT)

\* Guest memory: the frames 1..MaxFrame hold page tables, every 8-byte slot
\* of a frame holding the same value; the rest of memory reads as zero.
TableFrames == 1..MaxFrame
Entries ==
  { {},                                         \* empty
    FrameAddr(2) \cup {1, 5},                   \* not present, other bits set
    {12, 14, 18, 20, 21, 25, 28, 33} \cup {0, 1, 7},     \* present, PSE, frame 0x212345
    FrameAddr(MaxFrame) \cup {0, 1, 5, 6, 63} \cup {32, 34} }  \* present, NX, high frame bits
  \cup { FrameAddr(f) \cup {0, 1} : f \in TableFrames }   \* present, table at frame f
Memories == [TableFrames -> Entries]

\* The 8-byte slot that holds the byte at paddr.
Slot(mem, paddr) ==
  LET f == Shr(paddr, XC_PAGE_SHIFT)
  IN  IF \E g \in TableFrames : BitsOf(g, 0) = f
      THEN mem[CHOOSE g \in TableFrames : BitsOf(g, 0) = f]
      ELSE {}

\* The size bytes at paddr, little-endian, as a value (paddr is size-aligned).
ReadMem(mem, paddr, size) ==
  IF size = 8 THEN Slot(mem, paddr)
  ELSE IF 2 \in paddr THEN Shr(Slot(mem, paddr), 32)
  ELSE And(Slot(mem, paddr), Bits(0, 31))

\* memcpy(&pte, map.get() + (paddr & (XC_PAGE_SIZE - 1)), size): the low size
\* bytes of pte are overwritten, the others keep what pte held.
memcpy_pte(pte, mem, paddr, size) ==
  IF size = 8 THEN ReadMem(mem, paddr, size)
  ELSE Or(And(pte, Bits(32, 63)), ReadMem(mem, paddr, size))

\* A presence test on the whole entry instead of bit 0 (if (!pte)).
pte_present_any(pte) == pte # {}

\* if (!(pte & 1)) return std::nullopt;
pte_present(pte) == And(pte, {0}) # {}

\* (level == 2 || (level == 3 && pt_levels == 4)) && (pte & PTE_PSE)
is_large_page(level, pt_levels, pte) ==
  (level = 2 \/ (level = 3 /\ pt_levels = 4)) /\ And(pte, PTE_PSE) # {}

\* mask = ((mask ^ ~-mask) >> 1); return ((paddr & ~mask) | (vaddr & mask)) >> XC_PAGE_SHIFT;
large_page_frame(paddr, vaddr, mask) ==
  LET m == Shr(Xor(mask, Not(Neg(mask))), 1)
  IN  Shr(Or(And(paddr, Not(m)), And(vaddr, m)), XC_PAGE_SHIFT)

\* auto map = map_memory<char>(paddr, XC_PAGE_SIZE, PROT_READ): the n-th mapping
\* of a call succeeds unless the foreign memory mapping service fails it
\* (mapfail = n), in which case map_memory raises.
map_memory(mapfail, n) == IF mapfail = n THEN "threw" ELSE "mapped"

\* A walk that reports a failed mapping as "not present" (catch, return nullopt).
RECURSIVE walk_fault_as_nullopt(_, _, _, _, _, _)
walk_fault_as_nullopt(w, mem, vaddr, pt_levels, size, level) ==
  IF level = 0
  THEN [kind |-> "value", value |-> w.pte, maps |-> w.maps, ptes |-> w.ptes]
  ELSE LET paddr == Add(w.paddr, MulSize(Shr(And(vaddr, w.mask), xc_ffs64(w.mask) - 1), size))
           maps  == Append(w.maps, paddr)
           pte   == memcpy_pte(w.pte, mem, paddr, size)
           ptes  == Append(w.ptes, pte)
       IN  IF map_memory(w.mapfail, Len(maps)) = "threw"
           THEN [kind |-> "nullopt", maps |-> maps, ptes |-> w.ptes]
           ELSE IF ~pte_present(pte)
           THEN [kind |-> "nullopt", maps |-> maps, ptes |-> ptes]
           ELSE IF is_large_page(level, pt_levels, pte)
           THEN [kind |-> "value",
                 value |-> large_page_frame(And(pte, PteFrameMask), vaddr, w.mask),
                 maps |-> maps, ptes |-> ptes]
           ELSE walk_fault_as_nullopt(
                     [paddr |-> And(pte, PteFrameMask),
                      mask  |-> Shr(w.mask, IF pt_levels = 2 THEN 10 ELSE 9),
                      pte   |-> pte, maps |-> maps, ptes |-> ptes, mapfail |-> w.mapfail],
                     mem, vaddr, pt_levels, size, level - 1)

\* The walk while it runs: w.paddr, w.mask, w.pte are the locals, w.maps the
\* addresses given to map_memory and w.ptes the values pte took, in order;
\* w.mapfail is the mapping that fails (0: none).  An exception of map_memory
\* is not caught: it leaves the call (kind "threw").
\* The loop of get_page_table_entry (lines 184-201) from level on.
RECURSIVE walk(_, _, _, _, _, _)
walk(w, mem, vaddr, pt_levels, size, level) ==
  IF level = 0
  THEN [kind |-> "value", value |-> w.pte, maps |-> w.maps, ptes |-> w.ptes]
  ELSE LET paddr == Add(w.paddr, MulSize(Shr(And(vaddr, w.mask), xc_ffs64(w.mask) - 1), size))
           maps  == Append(w.maps, paddr)
           pte   == memcpy_pte(w.pte, mem, paddr, size)
           ptes  == Append(w.ptes, pte)
       IN  IF map_memory(w.mapfail, Len(maps)) = "threw"
           THEN [kind |-> "threw", maps |-> maps, ptes |-> w.ptes]
           ELSE IF ~pte_present(pte)
           THEN [kind |-> "nullopt", maps |-> maps, ptes |-> ptes]
           ELSE IF is_large_page(level, pt_levels, pte)
           THEN [kind |-> "value",
                 value |-> large_page_frame(And(pte, PteFrameMask), vaddr, w.mask),
                 maps |-> maps, ptes |-> ptes]
           ELSE walk([paddr |-> And(pte, PteFrameMask),
                      mask  |-> Shr(w.mask, IF pt_levels = 2 THEN 10 ELSE 9),
                      pte   |-> pte, maps |-> maps, ptes |-> ptes, mapfail |-> w.mapfail],
                     mem, vaddr, pt_levels, size, level - 1)

\* pt_levels as lines 156-169 choose it (paging enabled).
pt_levels_of(in) ==
  IF in.hvm
  THEN IF And(in.msr_efer, EFER_LMA) # {} THEN 4
       ELSE IF And(in.cr4, CR4_PAE) # {} THEN 3 ELSE 2
  ELSE IF in.word_size = 8 THEN 4 ELSE 3

\* A base table address cut to a page boundary in every mode.
pt_base_of_page_aligned(in) ==
  IF in.hvm
  THEN And(in.cr3, Not(Bits(0, 11)))
  ELSE IF in.word_size = 8 THEN in.cr3
       ELSE Shl(Or(Shr(in.cr3, XC_PAGE_SHIFT), Shl(in.cr3, 20)), XC_PAGE_SHIFT)

\* The base table address as lines 156-169 choose it.
pt_base_of(in) ==
  IF in.hvm
  THEN And(in.cr3, IF pt_levels_of(in) = 3 THEN Not(Bits(0, 4)) ELSE Not(Bits(0, 11)))
  ELSE IF in.word_size = 8 THEN in.cr3
       ELSE Shl(Or(Shr(in.cr3, XC_PAGE_SHIFT), Shl(in.cr3, 20)), XC_PAGE_SHIFT)

\* The address mask of the top level (lines 171-180).
pt_top_mask(pt_levels) ==
  IF pt_levels = 4 THEN Bits(39, 47)            \* 0x0000ff8000000000
  ELSE IF pt_levels = 3 THEN Bits(30, 38)       \* 0x0000007fc0000000
  ELSE Bits(22, 31)                             \* 0x00000000ffc00000

\* vaddr cut to the translated width (lines 171-180).
pt_vaddr(vaddr, pt_levels) ==
  IF pt_levels = 4 THEN And(vaddr, Bits(0, 47)) ELSE And(vaddr, Bits(0, 31))

\* Domain::get_page_table_entry on the inputs in; in.junk is what the
\* uninitialised local pte holds when the walk starts, in.mapfail the
\* mapping the foreign memory service fails (0: none).
translate(in) ==
  IF in.hvm /\ And(in.cr0, CR0_PG) = {}
  THEN [kind |-> "value", value |-> Shr(in.vaddr, XC_PAGE_SHIFT), maps |-> <<>>, ptes |-> <<>>]
  ELSE LET pt_levels == pt_levels_of(in)
           size      == IF pt_levels = 2 THEN 4 ELSE 8
       IN  walk([paddr |-> pt_base_of(in), mask |-> pt_top_mask(pt_levels),
                 pte |-> in.junk, maps |-> <<>>, ptes |-> <<>>, mapfail |-> in.mapfail],
                in.mem, pt_vaddr(in.vaddr, pt_levels), pt_levels, size, pt_levels)

\* The register contexts and domain kinds of the model: a hardware-virtualised
\* domain with each setting of cr0.PG, cr4.PAE and EFER.LMA, and a
\* paravirtualised one of each word size.
Cr3s == { FrameAddr(1), FrameAddr(1) \cup {3, 5} }
Contexts ==
  [hvm : {TRUE}, word_size : {8}, cr0 : {{}, CR0_PG \cup {0}}, cr4 : {{}, CR4_PAE \cup {5}},
   msr_efer : {{}, EFER_LMA \cup {8}}, cr3 : Cr3s]
  \cup
  [hvm : {FALSE}, word_size : {4, 8}, cr0 : {CR0_PG \cup {0}}, cr4 : {CR4_PAE \cup {5}},
   msr_efer : {{}}, cr3 : Cr3s]

\* The virtual addresses translated: 0, one with a non-zero index at every
\* level and a page offset, and a kernel address with the high bits set.
Vaddrs == { {}, {39, 30, 21, 12} \cup {2, 3, 4, 5, 7, 9, 11},
            Bits(47, 63) \cup {31, 22, 13, 0} }

\* What the uninitialised pte may hold.
Junk == { {}, {32, 40, 63} }

\* Which mapping of a call fails: none, or that of the table of a level.
MapFails == 0..4

\* What is outside the call's arguments: the stale value of pte with every
\* mapping succeeding, or a failing mapping (pte then starting as zero).
Disturbances ==
  { [junk |-> j, mapfail |-> 0] : j \in Junk } \cup
  { [junk |-> {}, mapfail |-> f] : f \in MapFails }

PtInit ==
  /\ pt_in \in { [hvm |-> c.hvm, word_size |-> c.word_size, cr0 |-> c.cr0, cr3 |-> c.cr3,
                  cr4 |-> c.cr4, msr_efer |-> c.msr_efer,
                  vaddr |-> v, mem |-> mem, junk |-> d.junk, mapfail |-> d.mapfail]
                 : c \in Contexts, v \in Vaddrs, mem \in Memories, d \in Disturbances }
  /\ pt_out = [kind |-> "none"]

\* One call of Domain::get_page_table_entry.
get_page_table_entry ==
  /\ pt_out.kind = "none"
  /\ pt_out' = translate(pt_in)
  /\ UNCHANGED <<pt_in, monitor_vars, domain_vars, control_vars, lifecycle_vars>>

PtNext == get_page_table_entry

(***************************************************************************)
(*                  Domain / DomainHVM: the control plane                  *)
(***************************************************************************)

\* Total number of control-channel calls made in a run.
MaxControlCalls == 2

\* What a libxc call returns: 0, or a non-zero status on failure.
Errs == {0, -1}

SHUTDOWN_poweroff == "SHUTDOWN_poweroff"
SHUTDOWN_reboot   == "SHUTDOWN_reboot"
XEN_DOMCTL_DEBUG_OP_SINGLE_STEP_ON  == "XEN_DOMCTL_DEBUG_OP_SINGLE_STEP_ON"
XEN_DOMCTL_DEBUG_OP_SINGLE_STEP_OFF == "XEN_DOMCTL_DEBUG_OP_SINGLE_STEP_OFF"

\* An operation while it runs: c.calls are the control-channel calls it has
\* made, c.result how it ends ("returned" or the exception that leaves it),
\* c.log the calls made before it began.
\* A XenException built without an error code is the range check's
\* ("NoSuchVCPU"); one built with -err reports a failed call
\* ("HypervisorCallFailed").

\* if ((err = xc_...(...))) throw XenException(..., -err);
xc(c, call, arg, err) ==
  [c EXCEPT !.calls = Append(@, [call |-> call, arg |-> arg, err |-> err]),
            !.result = IF err # 0 THEN "HypervisorCallFailed" ELSE @]

\* A pause that decides from the engine's own earlier calls (a cached bit:
\* set by its last successful pause, cleared by its last successful unpause).
pause_cached(c, info, err) ==
  LET own == SelectSeq(c.log, LAMBDA x : x.err = 0 /\ x.call \in {"xc_domain_pause",
                                                                   "xc_domain_unpause"})
      bit == Len(own) > 0 /\ own[Len(own)].call = "xc_domain_pause"
  IN  IF bit THEN c ELSE xc(c, "xc_domain_pause", <<>>, err)

\* Domain::pause; info is what get_dominfo() returns at the call.
pause(c, info, err) ==
  IF info.paused THEN c
  ELSE xc(c, "xc_domain_pause", <<>>, err)

\* Domain::unpause
unpause(c, info, err) ==
  IF ~info.paused THEN c
  ELSE xc(c, "xc_domain_unpause", <<>>, err)

\* Domain::shutdown
shutdown(c, reason, err) ==
  xc(c, "xc_domain_shutdown", <<reason>>, err)

\* A destroy that goes on to the destroy call whatever shutdown reported.
destroy_despite_failure(c, err_shutdown, err_destroy) ==
  xc(xc(c, "xc_domain_shutdown", <<SHUTDOWN_poweroff>>, err_shutdown),
     "xc_domain_destroy", <<>>, err_destroy)

\* Domain::destroy
destroy(c, err_shutdown, err_destroy) ==
  LET c1 == shutdown(c, SHUTDOWN_poweroff, err_shutdown)
  IN  IF c1.result # "returned" THEN c1
      ELSE xc(c1, "xc_domain_destroy", <<>>, err_destroy)

\* DomainHVM::set_debugging (and Domain::set_debugging, which is the same);
\* max is get_info().max_vcpu_id.
set_debugging(c, max, enable, vcpu_id, err) ==
  IF vcpu_id > max THEN [c EXCEPT !.result = "NoSuchVCPU"]
  ELSE xc(c, "xc_domain_setdebugging", <<enable>>, err)

\* A set_single_step without the range check.
set_single_step_unchecked(c, max, enable, vcpu_id, err) ==
  xc(c, "xc_domain_debug_control",
     <<IF enable THEN XEN_DOMCTL_DEBUG_OP_SINGLE_STEP_ON
       ELSE XEN_DOMCTL_DEBUG_OP_SINGLE_STEP_OFF, vcpu_id>>, err)

\* DomainHVM::set_single_step
set_single_step(c, max, enable, vcpu_id, err) ==
  LET op == IF enable THEN XEN_DOMCTL_DEBUG_OP_SINGLE_STEP_ON
            ELSE XEN_DOMCTL_DEBUG_OP_SINGLE_STEP_OFF
  IN  IF vcpu_id > max THEN [c EXCEPT !.result = "NoSuchVCPU"]
      ELSE xc(c, "xc_domain_debug_control", <<op, vcpu_id>>, err)

\* The hypervisor's side of the calls of an operation: a successful pause
\* leaves the domain paused, a successful unpause leaves it running.
HvStatusAfter(info, calls) ==
  IF \E k \in 1..Len(calls) : calls[k].call = "xc_domain_pause" /\ calls[k].err = 0
  THEN [info EXCEPT !.paused = TRUE]
  ELSE IF \E k \in 1..Len(calls) : calls[k].call = "xc_domain_unpause" /\ calls[k].err = 0
  THEN [info EXCEPT !.paused = FALSE]
  ELSE info

\* The domain was destroyed: no operation is made on it afterwards.
Destroyed ==
  \E k \in 1..Len(xc_calls) : xc_calls[k].call = "xc_domain_destroy" /\ xc_calls[k].err = 0

\* The vcpu ids the control plane is called with: the first and the last
\* vCPU of the domain and the first id past them.
ControlVcpuArgs == {0, max_vcpu_id, max_vcpu_id + 1}

\* The state an operation starts from.
ControlNow == [calls |-> <<>>, result |-> "returned", log |-> xc_calls]

\* An operation named op with the arguments args ends in c.
ControlFinish(op, args, c) ==
  /\ ~Destroyed
  /\ Len(xc_calls) + Len(c.calls) <= MaxControlCalls
  /\ xc_calls' = xc_calls \o c.calls
  /\ dominfo' = HvStatusAfter(dominfo, c.calls)
  /\ last_ctl' = [op |-> op, args |-> args, issued |-> c.calls, result |-> c.result,
                  paused |-> dominfo.paused, ps |-> _vcpu_pause_state,
                  repeat |-> (last_ctl.op = op /\ last_ctl.args = args)]
  /\ UNCHANGED <<hvm_hw_cpu, monitor_vars, domain_vars, pt_vars, lifecycle_vars>>

\* Domain::pause()
Domain_pause ==
  \E err \in Errs : ControlFinish("pause", <<>>, pause(ControlNow, dominfo, err))

\* Domain::unpause()
Domain_unpause ==
  \E err \in Errs : ControlFinish("unpause", <<>>, unpause(ControlNow, dominfo, err))

\* Domain::shutdown(reason)
Domain_shutdown ==
  \E reason \in {SHUTDOWN_poweroff, SHUTDOWN_reboot}, err \in Errs :
    ControlFinish("shutdown", <<reason>>, shutdown(ControlNow, reason, err))

\* Domain::destroy()
Domain_destroy ==
  \E err_shutdown \in Errs, err_destroy \in Errs :
    ControlFinish("destroy", <<>>, destroy(ControlNow, err_shutdown, err_destroy))

\* DomainHVM::set_debugging(enable, vcpu_id)
DomainHVM_set_debugging ==
  \E enable \in BOOLEAN, vcpu_id \in ControlVcpuArgs, err \in Errs :
    ControlFinish("set_debugging", <<enable, vcpu_id>>,
                  set_debugging(ControlNow, max_vcpu_id, enable, vcpu_id, err))

\* DomainHVM::set_single_step(enable, vcpu_id)
DomainHVM_set_single_step ==
  \E enable \in BOOLEAN, vcpu_id \in ControlVcpuArgs, err \in Errs :
    ControlFinish("set_single_step", <<enable, vcpu_id>>,
                  set_single_step(ControlNow, max_vcpu_id, enable, vcpu_id, err))

\* Another client of the hypervisor pauses or unpauses the domain.
HvSetPaused ==
  /\ ~Destroyed
  /\ dominfo' = [dominfo EXCEPT !.paused = ~@]
  /\ UNCHANGED <<xc_calls, last_ctl, hvm_hw_cpu, monitor_vars, domain_vars, pt_vars, lifecycle_vars>>

\* A running domain the debugger has attached to, with no call made yet.
ControlInit ==
  /\ dominfo = [paused |-> FALSE]
  /\ xc_calls = <<>>
  /\ last_ctl = [op |-> "none"]
  /\ hvm_hw_cpu = [kind |-> "none"]

\* The pause tracker of a domain of MaxVcpuId + 1 vCPUs after pause_vcpu(0).
TrackerSample ==
  /\ max_vcpu_id = MaxVcpuId
  /\ _vcpu_pause_state = [v \in 0..max_vcpu_id |-> v = 0]
  /\ hypercalls = <<[cmd |-> XEN_DOMCTL_gdbsx_pausevcpu, vcpu |-> 0]>>
  /\ last_op = [op |-> "pause_vcpu", vcpu_id |-> 0,
                pre |-> [v \in 0..max_vcpu_id |-> FALSE],
                issued |-> <<[cmd |-> XEN_DOMCTL_gdbsx_pausevcpu, vcpu |-> 0]>>,
                indexed |-> {0}, result |-> "returned"]

ControlNext ==
  \/ Domain_pause
  \/ Domain_unpause
  \/ Domain_shutdown
  \/ Domain_destroy
  \/ DomainHVM_set_debugging
  \/ DomainHVM_set_single_step
  \/ HvSetPaused

(***************************************************************************)
(*                     DomainHVM: register contexts                        *)
(***************************************************************************)

\* struct hvm_hw_cpu, cut down: rax stands for the registers that
\* convert_regs_from_hvm and convert_regs_to_hvm copy by SET_HVM / GET_HVM
\* (rax .. r15, rip, rflags, the segment bases), cr3 is copied too; cr0, cr4
\* and msr_efer are fields of the raw state that neither conversion touches.
HwStates == [rax : {1, 2}, cr3 : {1, 2}, cr0 : {0, 1}, cr4 : {0, 1}, msr_efer : {0, 1}]

\* What a register of a RegistersX86_64 holds before anything is stored in it.
FreshRegister == {0, 1}

\* RegistersX86Any: a 64-bit context with the registers the conversions
\* copy, or a 32-bit one.
Regs64 == [tag : {"RegistersX86_64"}, rax : {1, 2}, cr3 : {1, 2}]
RegsAny == Regs64 \cup [tag : {"RegistersX86_32"}, rax : {1}, cr3 : {1}]

NoContext == [kind |-> "none"]

\* (uint16_t)vcpu_id
uint16(vcpu_id) == vcpu_id % 65536

\* xc_domain_hvm_getcontext_partial(.., HVM_SAVE_CODE(CPU), (uint16_t)vcpu_id, &context, ..)
\* and the check of its result.
getcontext_partial(c, vcpu_id, err) ==
  xc(c, "xc_domain_hvm_getcontext_partial", <<uint16(vcpu_id)>>, err)

\* DomainHVM::get_cpu_context_raw; hw is the raw state the hypervisor holds.
get_cpu_context_raw(c, hw, vcpu_id, err) ==
  LET c1 == getcontext_partial(c, vcpu_id, err)
  IN  IF c1.result # "returned" THEN c1 ELSE [c1 EXCEPT !.context = hw]

\* DomainHVM::convert_regs_from_hvm: regs is constructed, then rax .. ss and
\* cr3 are stored in it; cr0, cr4 and msr_efer stay as constructed (fresh).
convert_regs_from_hvm(hvm, fresh) ==
  LET regs == [tag |-> "RegistersX86_64", rax |-> fresh, cr0 |-> fresh, cr3 |-> fresh,
               cr4 |-> fresh, msr_efer |-> fresh]
  IN  [regs EXCEPT !.rax = hvm.rax, !.cr3 = hvm.cr3]

\* DomainHVM::convert_regs_to_hvm
convert_regs_to_hvm(regs, hvm) ==
  [hvm EXCEPT !.rax = regs.rax, !.cr3 = regs.cr3]

\* DomainHVM::get_cpu_context
get_cpu_context(c, hw, vcpu_id, err, fresh) ==
  LET c1 == get_cpu_context_raw(c, hw, vcpu_id, err)
  IN  IF c1.result # "returned" THEN c1
      ELSE [c1 EXCEPT !.value = convert_regs_from_hvm(c1.context, fresh)]

\* DomainHVM::set_cpu_context_raw: receives the context to write back and
\* throws std::runtime_error("Not yet implemented!").
set_cpu_context_raw(c, context, vcpu_id) ==
  [c EXCEPT !.submitted = context, !.result = "Not yet implemented!"]

\* DomainHVM::set_cpu_context.  The second xc_domain_hvm_getcontext_partial
\* writes the raw state into new_context, a const object, through a cast
\* pointer: undefined behaviour, after which new_context reads either as the
\* raw state just written (reread) or as the value it was initialised with.
set_cpu_context(c, hw, regs, vcpu_id, err_old, err_new, reread) ==
  IF regs.tag # "RegistersX86_64"
  THEN [c EXCEPT !.result = "bad_variant_access"]       \* std::get<RegistersX86_64>
  ELSE LET c1 == get_cpu_context_raw(c, hw, vcpu_id, err_old)
       IN  IF c1.result # "returned" THEN c1
           ELSE LET new_context == convert_regs_to_hvm(regs, c1.context)
                    c2 == getcontext_partial(c1, vcpu_id, err_new)
                IN  IF c2.result # "returned" THEN c2
                    ELSE set_cpu_context_raw(c2, IF reread THEN hw ELSE new_context, vcpu_id)

\* The vcpu ids register contexts are asked for: those of the control plane
\* and one that is 0 once cut to 16 bits.
ContextVcpuArgs == ControlVcpuArgs \cup {65536}

\* The hypervisor has no vCPU of that id and fails the call.
HvNoSuchVcpu(vcpu_id) == uint16(vcpu_id) > max_vcpu_id

\* The state a register context operation starts from.
ContextNow ==
  [calls |-> <<>>, result |-> "returned", log |-> xc_calls,
   context |-> NoContext, value |-> NoContext, submitted |-> NoContext]

\* A register context operation named op with the arguments args ends in c.
ContextFinish(op, args, c) ==
  /\ Len(xc_calls) + Len(c.calls) <= MaxControlCalls
  /\ xc_calls' = xc_calls \o c.calls
  /\ last_ctl' = [op |-> op, args |-> args, issued |-> c.calls, result |-> c.result,
                  value |-> c.value, submitted |-> c.submitted]
  /\ UNCHANGED <<dominfo, hvm_hw_cpu, monitor_vars, domain_vars, pt_vars, lifecycle_vars>>

\* DomainHVM::get_cpu_context(vcpu_id)
DomainHVM_get_cpu_context ==
  \E vcpu_id \in ContextVcpuArgs, err \in Errs, fresh \in FreshRegister :
    /\ HvNoSuchVcpu(vcpu_id) => err # 0
    /\ ContextFinish("get_cpu_context", <<vcpu_id>>,
                     get_cpu_context(ContextNow, hvm_hw_cpu, vcpu_id, err, fresh))

\* DomainHVM::set_cpu_context(regs, vcpu_id)
DomainHVM_set_cpu_context ==
  \E regs \in RegsAny, vcpu_id \in ContextVcpuArgs, err_old \in Errs, err_new \in Errs,
     reread \in BOOLEAN :
    /\ HvNoSuchVcpu(vcpu_id) => (err_old # 0 /\ err_new # 0)
    /\ ContextFinish("set_cpu_context", <<regs, vcpu_id>>,
                     set_cpu_context(ContextNow, hvm_hw_cpu, regs, vcpu_id,
                                     err_old, err_new, reread))

\* An attached domain whose vCPUs hold some raw state, with no call made yet.
ContextInit ==
  /\ dominfo = [paused |-> FALSE]
  /\ xc_calls = <<>>
  /\ last_ctl = [op |-> "none"]
  /\ hvm_hw_cpu \in HwStates

ContextNext ==
  \/ DomainHVM_get_cpu_context
  \/ DomainHVM_set_cpu_context

(***************************************************************************)
(*           HVMMonitor: construction, destruction, enable_monitor         *)
(***************************************************************************)

\* Number of monitors constructed in a run.
MaxMonitors == 2

NULL == "nullptr"
RingPages == {"page_a", "page_b"}
Ports == {1, 2}
Errnos == {"EBUSY", "ENODEV", "EINVAL", "ENOMEM"}

\* What xc_monitor_enable can hand back: no page and the reason in errno, or a
\* page and the remote port, errno then holding whatever an earlier call left.
XcMonitorEnableResults ==
  [ring_page : {NULL}, port : {0}, errno : Errnos]
    \cup [ring_page : RingPages, port : Ports, errno : {"EBUSY", "EINVAL"}]

\* enable_monitor with the errno switch made before the null test.
enable_monitor_errno_first(r) ==
  IF r.errno = "EBUSY"
    THEN [kind |-> "threw", what |-> "Monitoring is already active for this domain!",
          errno |-> NULL]
    ELSE IF r.ring_page = NULL
      THEN [kind |-> "threw", what |-> "Failed to enable monitoring: ", errno |-> r.errno]
      ELSE [kind |-> "returned", ring_page |-> r.ring_page, port |-> r.port]

\* DomainHVM::enable_monitor, r being what xc_monitor_enable handed back.
enable_monitor(r) ==
  IF r.ring_page = NULL
    THEN CASE r.errno = "EBUSY" ->
                [kind |-> "threw", what |-> "Monitoring is already active for this domain!",
                 errno |-> NULL]
           [] r.errno = "ENODEV" ->
                [kind |-> "threw", what |-> "This domain does not support EPT!",
                 errno |-> NULL]
           [] OTHER ->
                [kind |-> "threw", what |-> "Failed to enable monitoring: ",
                 errno |-> r.errno]
    ELSE [kind |-> "returned", ring_page |-> r.ring_page, port |-> r.port]

\* The monitor object under construction or destruction: h.ring_page and h.port
\* are the members, h.log the resource calls made.
Acquire(h, ev) == [h EXCEPT !.log = Append(@, ev)]

\* HVMMonitor::unmap_ring_page, the deleter of _ring_page.
unmap_ring_page(h, ring_page) ==
  IF ring_page # NULL
    THEN Acquire(h, [op |-> "munmap", ring_page |-> ring_page])
    ELSE h

\* std::unique_ptr: reset releases the page held before, the destructor the one
\* held at the end; neither calls the deleter on a null pointer.
ring_page_reset(h, ring_page) ==
  LET released == IF h.ring_page # NULL THEN unmap_ring_page(h, h.ring_page) ELSE h
  IN  [released EXCEPT !.ring_page = ring_page]
ring_page_destroy(h) ==
  IF h.ring_page # NULL THEN unmap_ring_page(h, h.ring_page) ELSE h

\* XenEventChannel::bind_interdomain: the local port, or an exception (local = 0).
bind_interdomain(h, remote, local) ==
  [Acquire(h, [op |-> "bind_interdomain", remote |-> remote, local |-> local])
     EXCEPT !.thrown = (local = 0)]

\* XenEventChannel::unbind.
unbind(h, port) == Acquire(h, [op |-> "unbind", port |-> port])

\* The members destroyed when the constructor is left by an exception: the
\* destructor body does not run.
unwind(h) == [ring_page_destroy(h) EXCEPT !.phase = "failed"]

\* The constructor binding the port before it takes ownership of the page.
HVMMonitor_bind_first(h0, r, local) ==
  LET h1 == Acquire([h0 EXCEPT !.ring_page = NULL, !.port = 0, !.thrown = FALSE],
                    [op |-> "xc_monitor_enable", ring_page |-> r.ring_page,
                     port |-> r.port])
      out == enable_monitor(r)
  IN  IF out.kind = "threw"
        THEN [unwind(h1) EXCEPT !.enable = [xc |-> r, out |-> out]]
        ELSE LET h2 == bind_interdomain(h1, out.port, local)
             IN  IF h2.thrown
                   THEN [unwind(h2) EXCEPT !.enable = [xc |-> r, out |-> out]]
                   ELSE [ring_page_reset(h2, out.ring_page)
                           EXCEPT !.port = local, !.phase = "alive",
                                  !.enable = [xc |-> r, out |-> out]]

\* HVMMonitor::HVMMonitor: _ring_page starts null; enable_monitor; the page is
\* handed to _ring_page; the port is bound.
HVMMonitor(h0, r, local) ==
  LET h1 == Acquire([h0 EXCEPT !.ring_page = NULL, !.port = 0, !.thrown = FALSE],
                    [op |-> "xc_monitor_enable", ring_page |-> r.ring_page,
                     port |-> r.port])
      out == enable_monitor(r)
  IN  IF out.kind = "threw"
        THEN [unwind(h1) EXCEPT !.enable = [xc |-> r, out |-> out]]
        ELSE LET h2 == ring_page_reset(h1, out.ring_page)
                 h3 == bind_interdomain(h2, out.port, local)
             IN  IF h3.thrown
                   THEN [unwind(h3) EXCEPT !.enable = [xc |-> r, out |-> out]]
                   ELSE [h3 EXCEPT !.port = local, !.phase = "alive",
                                   !.enable = [xc |-> r, out |-> out]]

\* HVMMonitor::~HVMMonitor: the body unbinds the port, then the members go.
HVMMonitor_dtor(h) ==
  [ring_page_destroy(unbind(h, h.port)) EXCEPT !.phase = "destroyed"]

NoMonitor == [phase |-> "none", ring_page |-> NULL, port |-> 0, first |-> 1,
              enable |-> [xc |-> NULL, out |-> [kind |-> "none"]]]

NumConstructed ==
  Cardinality({i \in 1..Len(resources) : resources[i].op = "xc_monitor_enable"})

LifecycleFinish(h) ==
  /\ monitor_life' = [phase |-> h.phase, ring_page |-> h.ring_page, port |-> h.port,
                      first |-> h.first, enable |-> h.enable]
  /\ resources' = h.log
  /\ UNCHANGED <<monitor_vars, domain_vars, pt_vars, control_vars>>

\* A monitor is constructed: the first, or the next after the last one is gone.
HVMMonitor_construct ==
  /\ monitor_life.phase # "alive"
  /\ NumConstructed < MaxMonitors
  /\ \E r \in XcMonitorEnableResults, local \in {0} \cup Ports :
       LifecycleFinish(HVMMonitor([monitor_life EXCEPT !.first = Len(resources) + 1]
                                    @@ [log |-> resources, thrown |-> FALSE],
                                  r, local))

HVMMonitor_destroy ==
  /\ monitor_life.phase = "alive"
  /\ LifecycleFinish(HVMMonitor_dtor(monitor_life @@ [log |-> resources, thrown |-> FALSE]))

LifecycleInit ==
  /\ monitor_life = NoMonitor
  /\ resources = <<>>

LifecycleNext ==
  \/ HVMMonitor_construct
  \/ HVMMonitor_destroy

(***************************************************************************)
(*                            Specifications                               *)
(***************************************************************************)

\* The parts at rest.
MonitorIdle ==
  /\ _back_ring = [req_cons |-> 0, rsp_prod_pvt |-> 0]
  /\ sring = [req_prod |-> 0, rsp_prod |-> 0, req_event |-> 1, rsp_event |-> 1,
              ring |-> [i \in 0..(RingSize - 1) |-> EmptySlot]]
  /\ hv_rsp_cons = 0
  /\ _poll = FALSE
  /\ _on_software_breakpoint = FALSE
  /\ events = <<>>
  /\ last_read = [result |-> "none"]

DomainIdle ==
  /\ max_vcpu_id = 0
  /\ _vcpu_pause_state = [v \in 0..0 |-> FALSE]
  /\ hypercalls = <<>>
  /\ last_op = [op |-> "none"]

PtIdle ==
  /\ pt_in = [kind |-> "none"]
  /\ pt_out = [kind |-> "none"]

ControlIdle ==
  /\ dominfo = [paused |-> FALSE]
  /\ xc_calls = <<>>
  /\ last_ctl = [op |-> "none"]
  /\ hvm_hw_cpu = [kind |-> "none"]

\* Before any monitor is constructed.
LifecycleIdle == LifecycleInit

\* The monitor alone, after construction.
MonitorStart == MonitorInit /\ DomainIdle /\ PtIdle /\ ControlIdle /\ LifecycleIdle
MonitorSpec == MonitorStart /\ [][MonitorNext]_vars

\* One notification of a started monitor, on each filling of the ring.
DispatchStart == DispatchInit /\ DomainIdle /\ PtIdle /\ ControlIdle /\ LifecycleIdle
DispatchSpec == DispatchStart /\ [][DispatchNext]_vars

\* The ring operations alone, one call at a time.
RingStart == MonitorInit /\ DomainIdle /\ PtIdle /\ ControlIdle /\ LifecycleIdle
RingSpec == RingStart /\ [][RingNext]_vars

\* The translator alone, on each input.
TranslateStart == PtInit /\ MonitorIdle /\ DomainIdle /\ ControlIdle /\ LifecycleIdle
TranslateSpec == TranslateStart /\ [][PtNext]_vars

\* The pause tracker alone, after construction.
DomainStart == DomainInit /\ MonitorIdle /\ PtIdle /\ ControlIdle /\ LifecycleIdle
DomainSpec == DomainStart /\ [][DomainNext]_vars

\* The control plane alone, on an attached domain.
ControlStart == ControlInit /\ TrackerSample /\ MonitorIdle /\ PtIdle /\ LifecycleIdle
ControlSpec == ControlStart /\ [][ControlNext]_vars

\* Register contexts alone, on each raw state.
ContextStart == ContextInit /\ TrackerSample /\ MonitorIdle /\ PtIdle /\ LifecycleIdle
ContextSpec == ContextStart /\ [][ContextNext]_vars

\* Construction and destruction of monitors alone.
LifecycleStart == LifecycleInit /\ MonitorIdle /\ DomainIdle /\ PtIdle /\ ControlIdle
LifecycleSpec == LifecycleStart /\ [][LifecycleNext]_vars

\* The parts side by side.
Init == MonitorInit /\ DomainInit /\ PtInit /\ ContextInit /\ LifecycleInit
Next == MonitorNext \/ RingNext \/ DomainNext \/ PtNext \/ ControlNext \/ ContextNext
          \/ LifecycleNext
Spec == Init /\ [][Next]_vars

(***************************************************************************)
(*                     Properties of the HVMMonitor                        *)
(***************************************************************************)

\* The events of the last read_events call, by kind.
EvIdx == 1..Len(events)
IsGet(i)      == events[i].op = "get_request"
IsInject(i)   == events[i].op = "inject_event"
IsCallback(i) == events[i].op = "callback"
IsPut(i)      == events[i].op = "put_response"
NumGets == Cardinality({i \in EvIdx : IsGet(i)})
NumPuts == Cardinality({i \in EvIdx : IsPut(i)})

\* The event at i is put_response with the response prepared for req.
Answers(i, req) ==
  /\ i \in EvIdx
  /\ IsPut(i)
  /\ events[i].rsp.vcpu_id = req.vcpu_id
  /\ events[i].rsp.reason = req.reason

\* C1: whenever read_events returns, every request it consumed was answered:
\* the call made as many put_response as get_request calls, and the
\* response-produced cursor equals the request-consumed cursor.
C1_ResponsePerRequest ==
  last_read.result = "returned" =>
    /\ NumPuts = NumGets
    /\ _back_ring.rsp_prod_pvt = _back_ring.req_cons

\* C2: a request of another version than VM_EVENT_INTERFACE_VERSION is
\* answered at once by a response with its vcpu id and reason, with no trap
\* injection and no callback in between.
C2_MismatchAcknowledged ==
  \A i \in EvIdx :
    (IsGet(i) /\ events[i].req.version # VM_EVENT_INTERFACE_VERSION)
      => Answers(i + 1, events[i].req)

\* The event at i is the trap injection the software breakpoint req asks for.
InjectsFor(i, req) ==
  /\ i \in EvIdx
  /\ IsInject(i)
  /\ events[i].vcpu_id = req.vcpu_id
  /\ events[i].vector = X86_TRAP_INT3
  /\ events[i].insn_length = req.insn_length

IsSoftwareBreakpoint(req) ==
  /\ req.version = VM_EVENT_INTERFACE_VERSION
  /\ req.reason = VM_EVENT_REASON_SOFTWARE_BREAKPOINT

\* C5: a software breakpoint of the supported version is handled in this
\* order: get_request, one trap injection (its vcpu, INT3, its instruction
\* length), then the callback once with the identical request if one is
\* held, then put_response, and only then the next get_request.  Each step
\* follows as soon as the step before it has come back, and no injection or
\* callback happens anywhere else.
C5_BreakpointOrder ==
  /\ \A i \in EvIdx :
       (IsGet(i) /\ IsSoftwareBreakpoint(events[i].req)) =>
         LET req == events[i].req
         IN  /\ InjectsFor(i + 1, req)
             /\ events[i + 1].ok =>
                  IF last_read.callback
                  THEN /\ i + 2 \in EvIdx
                       /\ IsCallback(i + 2)
                       /\ events[i + 2].req = req
                       /\ events[i + 2].ok => Answers(i + 3, req)
                  ELSE Answers(i + 2, req)
             /\ \A j \in EvIdx :
                  (j > i /\ IsGet(j) /\ \A l \in (i + 1)..(j - 1) : ~IsGet(l))
                    => (Answers(j - 1, req) /\ j - 1 > i + 1)
  /\ \A j \in EvIdx :
       IsInject(j) => (j > 1 /\ IsGet(j - 1) /\ IsSoftwareBreakpoint(events[j - 1].req))
  /\ \A j \in EvIdx :
       IsCallback(j) => (j > 2 /\ last_read.callback /\ IsInject(j - 1) /\ events[j - 1].ok
                         /\ IsGet(j - 2) /\ events[j - 2].req = events[j].req)

\* C5's case: a breakpoint on vcpu 1 with instruction length 1 went through
\* injection, callback and response.
C5_Witness ==
  /\ Len(events) >= 4
  /\ IsGet(1) /\ IsSoftwareBreakpoint(events[1].req)
  /\ events[1].req.vcpu_id = 1 /\ events[1].req.insn_length = 1
  /\ InjectsFor(2, events[1].req)
  /\ IsCallback(3) /\ events[3].req = events[1].req
  /\ Answers(4, events[1].req)

\* C6: a failure while one request is handled (the injection or the callback
\* raises) does not end the drain: the request is answered and no published
\* request is left unconsumed when the call ends.
C6_FailureIsolated ==
  \A i \in EvIdx :
    ((IsInject(i) \/ IsCallback(i)) /\ ~events[i].ok) =>
      /\ \E j \in EvIdx : j > i /\ IsPut(j)
      /\ last_read.left = 0

\* C7: a read_events call that returns made exactly as many get_request
\* calls as there were requests pending when it began (none when the ring
\* was empty), and leaves no published request unconsumed.
C7_DrainsAll ==
  last_read.result = "returned" =>
    /\ NumGets = last_read.pending
    /\ last_read.left = 0

\* C7's case: a full ring was drained in one call.
C7_Witness ==
  /\ last_read.result = "returned"
  /\ last_read.pending = RingSize
  /\ NumGets = RingSize

\* The request the response at i answers: the last one taken before it.
HasRequest(i) == \E j \in 1..(i - 1) : IsGet(j)
RequestOf(i) ==
  events[CHOOSE j \in 1..(i - 1) : IsGet(j) /\ \A l \in (j + 1)..(i - 1) : ~IsGet(l)].req

\* C13: every response put on the ring has the version, vcpu_id and reason
\* of the request it answers, and as flags the request's flags restricted to
\* VM_EVENT_FLAG_VCPU_PAUSED.
C13_ResponseEchoes ==
  \A i \in EvIdx :
    IsPut(i) =>
      /\ HasRequest(i)
      /\ events[i].rsp.version = RequestOf(i).version
      /\ events[i].rsp.vcpu_id = RequestOf(i).vcpu_id
      /\ events[i].rsp.reason = RequestOf(i).reason
      /\ events[i].rsp.flags = RequestOf(i).flags \cap {VM_EVENT_FLAG_VCPU_PAUSED}

\* C13's case: a request with the paused flag and another flag set was
\* answered, the response carrying the paused flag alone; and one with no
\* flag set was answered with no flag.
C13_Witness ==
  /\ \E i \in EvIdx :
       /\ IsPut(i) /\ HasRequest(i)
       /\ RequestOf(i).flags = {VM_EVENT_FLAG_VCPU_PAUSED, "FOREIGN"}
       /\ events[i].rsp.flags = {VM_EVENT_FLAG_VCPU_PAUSED}
  /\ \E i \in EvIdx :
       /\ IsPut(i) /\ HasRequest(i)
       /\ RequestOf(i).flags = {}
       /\ events[i].rsp.flags = {}

\* The reasons C14 names.
StubReasons == SwitchReasons \ {VM_EVENT_REASON_SOFTWARE_BREAKPOINT}

\* C14: a request of the supported version with a reason of StubReasons is
\* answered at once by exactly one response, the default acknowledgment
\* (version, its vcpu_id, its paused flag, its reason), with no trap
\* injection and no callback for it, and the pause tracker and the hypercalls
\* issued stay as they were.
C14_StubReasonsAcknowledged ==
  /\ \A i \in EvIdx :
       (/\ IsGet(i)
        /\ events[i].req.version = VM_EVENT_INTERFACE_VERSION
        /\ events[i].req.reason \in StubReasons) =>
         /\ i + 1 \in EvIdx
         /\ IsPut(i + 1)
         /\ events[i + 1].rsp =
              [version |-> VM_EVENT_INTERFACE_VERSION,
               vcpu_id |-> events[i].req.vcpu_id,
               flags   |-> events[i].req.flags \cap {VM_EVENT_FLAG_VCPU_PAUSED},
               reason  |-> events[i].req.reason]
         /\ (i + 2 \in EvIdx) => IsGet(i + 2)
  /\ _vcpu_pause_state = [v \in 0..0 |-> FALSE]
  /\ hypercalls = <<>>

\* C14's case: with a callback held, a memory access request and a CPUID
\* request were each answered by one response and nothing else was done.
C14_Witness ==
  /\ last_read.result = "returned"
  /\ last_read.callback
  /\ Len(events) = 4
  /\ IsGet(1) /\ events[1].req.reason = "MEM_ACCESS" /\ IsPut(2)
  /\ IsGet(3) /\ events[3].req.reason = "CPUID" /\ IsPut(4)

(***************************************************************************)
(*                    Properties of the pause tracker                      *)
(***************************************************************************)

VcpuIds == 0..max_vcpu_id

\* The hypercalls the hypervisor has received for vcpu v, in order.
HypercallsFor(v) == SelectSeq(hypercalls, LAMBDA c : c.vcpu = v)

\* C3: for every vCPU v <= max_vcpu_id, an operation issues at most one
\* hypercall for v, a pause only if v's bit was running before and an unpause
\* only if it was paused; a pause_vcpu of a paused vCPU issues nothing; and
\* the hypercalls received for v alternate pause, unpause, pause, ...
C3_NoRedundantHypercall ==
  /\ last_op.op # "none" =>
       /\ \A k \in 1..Len(last_op.issued) :
            LET c == last_op.issued[k]
            IN  c.vcpu \in VcpuIds =>
                /\ (c.cmd = XEN_DOMCTL_gdbsx_pausevcpu) => ~last_op.pre[c.vcpu]
                /\ (c.cmd = XEN_DOMCTL_gdbsx_unpausevcpu) => last_op.pre[c.vcpu]
                /\ \A l \in 1..Len(last_op.issued) :
                     last_op.issued[l].vcpu = c.vcpu => l = k
       /\ (last_op.op = "pause_vcpu" /\ last_op.vcpu_id \in VcpuIds)
            => (last_op.pre[last_op.vcpu_id] => last_op.issued = <<>>)
  /\ \A v \in VcpuIds :
       \A k \in 1..Len(HypercallsFor(v)) :
         HypercallsFor(v)[k].cmd = IF k % 2 = 1 THEN XEN_DOMCTL_gdbsx_pausevcpu
                                   ELSE XEN_DOMCTL_gdbsx_unpausevcpu

\* C3's case: pause_vcpu(v) was called on a vCPU paused by an earlier
\* hypercall, and issued nothing.
C3_Witness ==
  /\ last_op.op = "pause_vcpu"
  /\ last_op.vcpu_id \in VcpuIds
  /\ last_op.pre[last_op.vcpu_id]
  /\ last_op.issued = <<>>
  /\ Len(HypercallsFor(last_op.vcpu_id)) = 1

\* C4: when pause_vcpus_except(v) returns, every vCPU other than v is
\* paused, v's bit is what it was, and no hypercall was issued for v.
C4_PauseAllExcept ==
  (last_op.op = "pause_vcpus_except" /\ last_op.result = "returned") =>
    /\ \A id \in VcpuIds \ {last_op.vcpu_id} : _vcpu_pause_state[id]
    /\ _vcpu_pause_state[last_op.vcpu_id] = last_op.pre[last_op.vcpu_id]
    /\ \A k \in 1..Len(last_op.issued) : last_op.issued[k].vcpu # last_op.vcpu_id

\* C4's case: max_vcpu_id = 3, all running, pause_vcpus_except(2).
C4_Witness ==
  /\ max_vcpu_id = 3
  /\ last_op.op = "pause_vcpus_except" /\ last_op.result = "returned"
  /\ last_op.vcpu_id = 2
  /\ \A id \in VcpuIds : ~last_op.pre[id]
  /\ _vcpu_pause_state = [id \in 0..3 |-> id # 2]

\* C12: pause_vcpu(vcpu) and unpause_vcpu(vcpu) with vcpu > max_vcpu_id fail
\* with InvalidVCPU, change no tracker bit and issue no hypercall.
C12_InvalidVcpuRejected ==
  (last_op.op \in {"pause_vcpu", "unpause_vcpu"} /\ last_op.vcpu_id > max_vcpu_id) =>
    /\ last_op.result = "InvalidVCPU"
    /\ last_op.issued = <<>>
    /\ _vcpu_pause_state = last_op.pre

\* The operations that loop over the vCPUs of the domain.
LoopOps == {"pause_vcpus_except", "unpause_vcpus_except", "pause_all_vcpus",
            "unpause_all_vcpus"}

\* C28: the tracker has one bit for each id 0..max_vcpu_id, all clear before
\* the first operation; no operation changes its length; and an operation on
\* all vCPUs, or on all but one, indexes only positions the tracker has: each
\* id 0..max_vcpu_id it is to visit when it returns, and none past the end.
C28_TrackerLength ==
  /\ DOMAIN _vcpu_pause_state = 0..max_vcpu_id
  /\ last_op.op = "none" => \A v \in VcpuIds : ~_vcpu_pause_state[v]
  /\ last_op.op # "none" => DOMAIN last_op.pre = DOMAIN _vcpu_pause_state
  /\ last_op.op \in LoopOps =>
       /\ last_op.indexed \subseteq DOMAIN _vcpu_pause_state
       /\ last_op.result = "returned" => last_op.indexed = VcpuIds \ {last_op.vcpu_id}

\* C28's case: an operation on all vCPUs of a domain with three or more went
\* through every position of the tracker.
C28_Witness ==
  /\ last_op.op \in {"pause_all_vcpus", "unpause_all_vcpus"}
  /\ last_op.result = "returned"
  /\ max_vcpu_id >= 2
  /\ last_op.indexed = 0..max_vcpu_id
  /\ Len(last_op.issued) > 0

\* C29: when the hypercall of an operation fails, the bit of the vCPU it was
\* for is as before the operation: pause_vcpu and unpause_vcpu leave the
\* tracker as it was, and an operation over several vCPUs has changed only the
\* bits of the vCPUs whose hypercall succeeded before the failing one.
C29_FailedHypercallKeepsBit ==
  (last_op.op # "none" /\ last_op.result = "threw") =>
    \A v \in VcpuIds :
      _vcpu_pause_state[v] # last_op.pre[v] =>
        \E k \in 1..(Len(last_op.issued) - 1) : last_op.issued[k].vcpu = v

(***************************************************************************)
(*                    Properties of the control plane                      *)
(***************************************************************************)

\* The k-th call on the control channel is a shutdown(poweroff) that succeeded.
IsPoweroffDone(calls, k) ==
  /\ k \in 1..Len(calls)
  /\ calls[k] = [call |-> "xc_domain_shutdown", arg |-> <<SHUTDOWN_poweroff>>, err |-> 0]

\* C15: destroy() issues shutdown(poweroff) first and issues the destroy call
\* only if that shutdown succeeded; so every destroy call on the control
\* channel comes right after a successful shutdown(poweroff).
C15_ShutdownBeforeDestroy ==
  /\ \A k \in 1..Len(xc_calls) :
       xc_calls[k].call = "xc_domain_destroy" => IsPoweroffDone(xc_calls, k - 1)
  /\ last_ctl.op = "destroy" =>
       /\ Len(last_ctl.issued) >= 1
       /\ last_ctl.issued[1].call = "xc_domain_shutdown"
       /\ last_ctl.issued[1].arg = <<SHUTDOWN_poweroff>>
       /\ last_ctl.issued[1].err # 0 => Len(last_ctl.issued) = 1
       /\ last_ctl.issued[1].err = 0 =>
            (Len(last_ctl.issued) = 2 /\ last_ctl.issued[2].call = "xc_domain_destroy")

\* C15's case: a destroy() whose shutdown failed, after an earlier
\* shutdown(poweroff) had succeeded: it made the shutdown call and no other.
C15_Witness ==
  /\ last_ctl.op = "destroy"
  /\ last_ctl.result = "HypervisorCallFailed"
  /\ Len(last_ctl.issued) = 1
  /\ Len(xc_calls) = 2
  /\ IsPoweroffDone(xc_calls, 1)

\* C16: set_debugging(enabled, vcpu) and set_single_step(enabled, vcpu) fail
\* with NoSuchVCPU and make no control call when vcpu > max_vcpu_id;
\* otherwise each invocation makes exactly one control call, for the value
\* asked, also when it repeats the invocation before it; and neither changes
\* a bit of the pause tracker.
C16_DebugToggles ==
  last_ctl.op \in {"set_debugging", "set_single_step"} =>
    LET enable  == last_ctl.args[1]
        vcpu_id == last_ctl.args[2]
    IN  /\ vcpu_id > max_vcpu_id =>
             (last_ctl.result = "NoSuchVCPU" /\ last_ctl.issued = <<>>)
        /\ vcpu_id <= max_vcpu_id =>
             /\ Len(last_ctl.issued) = 1
             /\ last_ctl.result \in {"returned", "HypervisorCallFailed"}
             /\ last_ctl.result = "returned" <=> last_ctl.issued[1].err = 0
             /\ last_ctl.op = "set_debugging" =>
                  (/\ last_ctl.issued[1].call = "xc_domain_setdebugging"
                   /\ last_ctl.issued[1].arg = <<enable>>)
             /\ last_ctl.op = "set_single_step" =>
                  (/\ last_ctl.issued[1].call = "xc_domain_debug_control"
                   /\ last_ctl.issued[1].arg =
                        <<IF enable THEN XEN_DOMCTL_DEBUG_OP_SINGLE_STEP_ON
                          ELSE XEN_DOMCTL_DEBUG_OP_SINGLE_STEP_OFF, vcpu_id>>)
        /\ _vcpu_pause_state = last_ctl.ps

\* C16's case: set_single_step(TRUE, v) was repeated with the same
\* arguments on a domain with a paused vCPU, and made its call again.
C16_Witness ==
  /\ last_ctl.op = "set_single_step"
  /\ last_ctl.repeat
  /\ last_ctl.args[1]
  /\ Len(last_ctl.issued) = 1
  /\ Len(xc_calls) = 2
  /\ xc_calls[1] = xc_calls[2]
  /\ _vcpu_pause_state[0]

\* C20: pause() makes the pause call only if the domain status read at the
\* call says not paused, unpause() makes the unpause call only if it says
\* paused; in the target state already, the operation returns having made no
\* call, whatever the operations made before.
C20_PauseChecksLiveStatus ==
  /\ last_ctl.op = "pause" =>
       IF last_ctl.paused
       THEN last_ctl.issued = <<>> /\ last_ctl.result = "returned"
       ELSE Len(last_ctl.issued) = 1 /\ last_ctl.issued[1].call = "xc_domain_pause"
  /\ last_ctl.op = "unpause" =>
       IF ~last_ctl.paused
       THEN last_ctl.issued = <<>> /\ last_ctl.result = "returned"
       ELSE Len(last_ctl.issued) = 1 /\ last_ctl.issued[1].call = "xc_domain_unpause"

\* C20's case: the domain was paused by someone else, the engine having made
\* no pause call of its own, and pause() made no call.
C20_Witness ==
  /\ last_ctl.op = "pause"
  /\ last_ctl.paused
  /\ last_ctl.issued = <<>>
  /\ \A k \in 1..Len(xc_calls) : xc_calls[k].call # "xc_domain_pause"
  /\ Len(xc_calls) > 0

\* C17: get_cpu_context(vcpu) with vcpu > max_vcpu_id fails with NoSuchVCPU
\* before any read of the live state is attempted (no call is made); with a
\* vcpu of the domain it reads the live state by one call for that vcpu.
C17_ContextRangeChecked ==
  last_ctl.op = "get_cpu_context" =>
    LET vcpu_id == last_ctl.args[1]
    IN  /\ vcpu_id > max_vcpu_id =>
             (last_ctl.result = "NoSuchVCPU" /\ last_ctl.issued = <<>>)
        /\ vcpu_id <= max_vcpu_id =>
             /\ Len(last_ctl.issued) = 1
             /\ last_ctl.issued[1].call = "xc_domain_hvm_getcontext_partial"
             /\ last_ctl.issued[1].arg = <<vcpu_id>>

\* C18: the raw context set_cpu_context(ctx, vcpu) submits for write-back is
\* the vCPU's current raw state with the registers the context models
\* replaced by ctx's values: the other fields keep the raw state's values,
\* the modelled ones carry ctx's.
C18_ReadModifyWrite ==
  (last_ctl.op = "set_cpu_context" /\ last_ctl.submitted # NoContext) =>
    LET ctx == last_ctl.args[1]
    IN  /\ last_ctl.submitted.rax = ctx.rax
        /\ last_ctl.submitted.cr3 = ctx.cr3
        /\ last_ctl.submitted.cr0 = hvm_hw_cpu.cr0
        /\ last_ctl.submitted.msr_efer = hvm_hw_cpu.msr_efer

(***************************************************************************)
(*                 Properties of get_page_table_entry                      *)
(***************************************************************************)

\* The call has been made and walked the page tables.
PtWalked == pt_out.kind # "none" /\ Len(pt_out.maps) > 0
PtLevels == pt_levels_of(pt_in)
\* The entries the walk read: one per page it mapped.
PtSteps  == 1..Len(pt_out.ptes)
\* The level the k-th entry of the walk was read at.
PtLevelAt(k) == PtLevels - k + 1
\* The k-th entry of the walk as guest memory holds it (4 or 8 bytes).
PtEntryAt(k) ==
  ReadMem(pt_in.mem, pt_out.maps[k], IF PtLevels = 2 THEN 4 ELSE 8)
PtPresentAt(k) == 0 \in PtEntryAt(k)
PtLargeBitAt(k) == 7 \in PtEntryAt(k)

\* C8: in a 4-level walk whose four entries are present and have the
\* large-page bit clear, the result is the frame number held by the level-1
\* entry: its frame field shifted right by XC_PAGE_SHIFT, whatever its flags.
C8_FrameOfLevel1Entry ==
  (/\ PtWalked
   /\ PtLevels = 4
   /\ Len(pt_out.ptes) = 4
   /\ \A k \in PtSteps : PtPresentAt(k) /\ ~PtLargeBitAt(k))
    => /\ pt_out.kind = "value"
       /\ pt_out.value = Shr(And(PtEntryAt(4), PteFrameMask), XC_PAGE_SHIFT)

\* C9: in a walk of 2, 3 or 4 levels, an entry whose present bit is clear
\* ends the walk there: the result is "not present" (no error), and no page
\* is mapped after the one that holds the entry.
C9_NotPresentStops ==
  PtWalked =>
    /\ PtLevels \in {2, 3, 4}
    /\ \A k \in PtSteps :
         ~PtPresentAt(k) => (pt_out.kind = "nullopt" /\ k = Len(pt_out.maps))

\* C9's case: an entry above level 1 with the present bit clear and other
\* bits set was read, and the walk ended there with "not present".
C9_Witness ==
  /\ PtWalked
  /\ pt_out.kind = "nullopt"
  /\ Len(pt_out.ptes) \in 2..(PtLevels - 1)
  /\ PtEntryAt(Len(pt_out.ptes)) # {}

\* The offset bits of a large page found at level of an L-level walk: the
\* bits below the lowest bit of that level's index mask.
LargePageOffsetBits(L, level) ==
  IF L = 2 THEN Bits(0, 21)                     \* 4 MiB
  ELSE IF level = 2 THEN Bits(0, 20)            \* 2 MiB
  ELSE Bits(0, 29)                              \* 1 GiB

\* C10: a present entry with the large-page bit set, read at level 2 or at
\* level 3 of a 4-level walk, ends the walk with the frame
\* ((entry frame address & ~m) | (vaddr & m)) >> XC_PAGE_SHIFT, m being the
\* offset bits of that level; at any other level the bit does not end the walk.
C10_LargePageFrame ==
  PtWalked =>
    \A k \in PtSteps :
      (PtPresentAt(k) /\ PtLargeBitAt(k)) =>
        LET level == PtLevelAt(k)
            m     == LargePageOffsetBits(PtLevels, level)
        IN  IF level = 2 \/ (level = 3 /\ PtLevels = 4)
            THEN /\ k = Len(pt_out.maps)
                 /\ pt_out.kind = "value"
                 /\ pt_out.value =
                      Shr(Or(And(And(PtEntryAt(k), PteFrameMask), Not(m)),
                             And(pt_in.vaddr, m)), XC_PAGE_SHIFT)
            ELSE k < Len(pt_out.maps) \/ level = 1

\* C11: a mapping that fails during the walk ends the call with a failure
\* raised to the caller, never with "not present"; "not present" is the result
\* only when every mapping succeeded and the last entry read has its present
\* bit clear.
C11_MapFailureIsHard ==
  pt_out.kind # "none" =>
    /\ (pt_in.mapfail \in 1..Len(pt_out.maps)) =>
         (pt_out.kind = "threw" /\ Len(pt_out.maps) = pt_in.mapfail)
    /\ pt_out.kind = "nullopt" =>
         /\ pt_in.mapfail \notin 1..Len(pt_out.maps)
         /\ Len(pt_out.ptes) = Len(pt_out.maps)
         /\ ~PtPresentAt(Len(pt_out.ptes))
    /\ pt_out.kind = "threw" => pt_in.mapfail = Len(pt_out.maps)

\* C11's case: the two upper entries of a walk were read and present, and
\* the mapping of the third table failed.
C11_Witness ==
  /\ pt_out.kind = "threw"
  /\ Len(pt_out.maps) = 3
  /\ Len(pt_out.ptes) = 2
  /\ PtPresentAt(1) /\ PtPresentAt(2)

\* The call's arguments and the guest memory, without what pte held before.
PtArguments(in) ==
  [hvm |-> in.hvm, word_size |-> in.word_size, cr0 |-> in.cr0, cr3 |-> in.cr3,
   cr4 |-> in.cr4, msr_efer |-> in.msr_efer, vaddr |-> in.vaddr, mem |-> in.mem,
   mapfail |-> in.mapfail]

\* C19: the result of a translation is determined by the register context,
\* the paging mode, the virtual address and the guest memory: a call with
\* the same ones gives the same result whatever the local pte held before,
\* for every level count.
C19_ResultDependsOnInputsOnly ==
  pt_out.kind # "none" =>
    \A j \in Junk :
      LET again == translate([pt_in EXCEPT !.junk = j])
      IN  /\ PtArguments([pt_in EXCEPT !.junk = j]) = PtArguments(pt_in)
          /\ again.kind = pt_out.kind
          /\ pt_out.kind = "value" => again.value = pt_out.value


\* The requests the engine may still take: RING_HAS_UNCONSUMED_REQUESTS on the
\* ring as it is.
Unconsumed == RING_HAS_UNCONSUMED_REQUESTS([br |-> _back_ring, sr |-> sring])
\* A drain ran in this step.
Drained == _back_ring' # _back_ring \/ events' # events \/ last_read' # last_read

\* C22: while the monitor is stopped no step drains the ring: the cursors, the
\* published response index and event threshold and the record of the last
\* drain stay as they are, whatever the hypervisor publishes.  A step that
\* stops the monitor is either stop() itself, which changes nothing else
\* (cursors, ring, callback, ring page and port), or a drain whose callback
\* called stop(), and that drain still runs to its end: when it returns it has
\* taken every request that was pending and nothing consumable is left.
C22_StopOnlyStopsListening ==
  [][ /\ (~_poll /\ ~_poll') =>
           /\ ~Drained
           /\ sring'.rsp_prod = sring.rsp_prod
           /\ sring'.req_event = sring.req_event
           /\ UNCHANGED lifecycle_vars
      /\ (_poll /\ ~_poll') =>
           \/ UNCHANGED <<_back_ring, sring, hv_rsp_cons, _on_software_breakpoint,
                          events, last_read, lifecycle_vars>>
           \/ /\ Drained
              /\ last_read'.stopped_at > 0
              /\ UNCHANGED lifecycle_vars
              /\ last_read'.result = "returned" =>
                   /\ Unconsumed' = 0
                   /\ NumGets' = last_read'.pending
    ]_vars

\* C22's case: the callback called stop() while the first request of a full
\* ring was handled, and the call went on to take the other requests.
C22_Witness ==
  /\ ~_poll
  /\ last_read.result = "returned"
  /\ last_read.stopped_at > 0
  /\ last_read.pending = RingSize
  /\ \E i \in EvIdx : i > last_read.stopped_at /\ IsGet(i)

\* C23: the consumed-request cursor never passes the index up to which the
\* hypervisor has published requests, the produced-response cursor never passes
\* the consumed-request cursor, the published response index is the private
\* one, and no step moves either cursor back.
C23_RingCursors ==
  /\ [](/\ _back_ring.req_cons <= sring.req_prod
        /\ _back_ring.rsp_prod_pvt <= _back_ring.req_cons
        /\ sring.rsp_prod = _back_ring.rsp_prod_pvt)
  /\ [][ /\ _back_ring'.req_cons >= _back_ring.req_cons
         /\ _back_ring'.rsp_prod_pvt >= _back_ring.rsp_prod_pvt ]_vars

\* C23's case: the engine has consumed and answered every request of the run,
\* the ring having wrapped around.
C23_Witness ==
  /\ _back_ring.req_cons = MaxRequests
  /\ _back_ring.rsp_prod_pvt = MaxRequests
  /\ sring.req_prod = MaxRequests

\* C24: a step that moves the consumed cursor is one get_request: it hands back
\* the slot at the old cursor, moves the cursor by one, publishes the new
\* cursor + 1 as the event threshold and leaves the response cursor, the
\* published response index and every slot as they were.  A step that moves the
\* produced cursor is one put_response: it writes its response to the slot at
\* the old cursor, moves the cursor by one, publishes it as the shared response
\* index and leaves the consumed cursor, the event threshold and the other
\* slots as they were.
C24_RingOperationFrames ==
  [][ /\ _back_ring'.req_cons # _back_ring.req_cons =>
           /\ _back_ring'.req_cons = _back_ring.req_cons + 1
           /\ events' = <<[op |-> "get_request",
                           req |-> sring.ring[RingSlot(_back_ring.req_cons)]]>>
           /\ sring'.req_event = _back_ring'.req_cons + 1
           /\ _back_ring'.rsp_prod_pvt = _back_ring.rsp_prod_pvt
           /\ sring'.rsp_prod = sring.rsp_prod
           /\ sring'.ring = sring.ring
           /\ sring'.req_prod = sring.req_prod
      /\ _back_ring'.rsp_prod_pvt # _back_ring.rsp_prod_pvt =>
           /\ _back_ring'.rsp_prod_pvt = _back_ring.rsp_prod_pvt + 1
           /\ Len(events') = 1
           /\ events'[1].op = "put_response"
           /\ sring'.ring[RingSlot(_back_ring.rsp_prod_pvt)] = events'[1].rsp
           /\ \A i \in 0..(RingSize - 1) :
                i # RingSlot(_back_ring.rsp_prod_pvt) => sring'.ring[i] = sring.ring[i]
           /\ sring'.rsp_prod = _back_ring'.rsp_prod_pvt
           /\ _back_ring'.req_cons = _back_ring.req_cons
           /\ sring'.req_event = sring.req_event
           /\ sring'.req_prod = sring.req_prod
    ]_vars

\* C24's case: a response was put in a slot the ring had already used once,
\* every request of the run having been taken.
C24_Witness ==
  /\ Len(events) = 1
  /\ events[1].op = "put_response"
  /\ _back_ring.rsp_prod_pvt > RingSize
  /\ _back_ring.req_cons = MaxRequests
  /\ sring.req_event = MaxRequests + 1

\* The paging mode of the inputs, bit by bit: cr0.PG is bit 31, cr4.PAE bit 5,
\* EFER.LMA bit 10.
PagingDisabled == pt_in.hvm /\ 31 \notin pt_in.cr0
ModeLevels ==
  IF pt_in.hvm
  THEN IF 10 \in pt_in.msr_efer THEN 4 ELSE IF 5 \in pt_in.cr4 THEN 3 ELSE 2
  ELSE IF pt_in.word_size = 8 THEN 4 ELSE 3
ModeEntryBytes == IF ModeLevels = 2 THEN 4 ELSE 8
\* cr3 without its low 5 bits (3 levels) or its low 12 bits (2 or 4 levels).
ModeBase ==
  IF ModeLevels = 3 THEN pt_in.cr3 \ (0..4) ELSE pt_in.cr3 \ (0..11)
\* The bits of vaddr that index the top table, and the byte offset of the
\* entry they select in it.
ModeTopIndexBits ==
  IF ModeLevels = 4 THEN 39..47 ELSE IF ModeLevels = 3 THEN 30..31 ELSE 22..31
ModeTopOffset ==
  LET low   == IF ModeLevels = 4 THEN 39 ELSE IF ModeLevels = 3 THEN 30 ELSE 22
      scale == IF ModeEntryBytes = 4 THEN 2 ELSE 3
  IN  { b - low + scale : b \in pt_in.vaddr \cap ModeTopIndexBits }
\* The walk went through every level: each entry present, none a large page.
PtFullWalk ==
  /\ pt_out.kind = "value"
  /\ Len(pt_out.ptes) > 0
  /\ \A k \in PtSteps : ~is_large_page(ModeLevels - k + 1, ModeLevels, pt_out.ptes[k])

C27_ContextCarriesControlRegisters ==
  (last_ctl.op = "get_cpu_context" /\ last_ctl.result = "returned") =>
    /\ last_ctl.value.cr3 = hvm_hw_cpu.cr3
    /\ last_ctl.value.cr0 = hvm_hw_cpu.cr0
    /\ last_ctl.value.cr4 = hvm_hw_cpu.cr4
    /\ last_ctl.value.msr_efer = hvm_hw_cpu.msr_efer

(***************************************************************************)
(*          Properties of construction, destruction, enable_monitor        *)
(***************************************************************************)

\* The resource calls made for the current monitor, from its construction on.
OwnCalls == {i \in 1..Len(resources) : i >= monitor_life.first}
NumMunmap(ring_page) ==
  Cardinality({i \in OwnCalls : /\ resources[i].op = "munmap"
                                /\ resources[i].ring_page = ring_page})
NumUnbind == Cardinality({i \in OwnCalls : resources[i].op = "unbind"})
NumUnbindOf(port) ==
  Cardinality({i \in OwnCalls : /\ resources[i].op = "unbind"
                                /\ resources[i].port = port})
NumReleases ==
  Cardinality({i \in OwnCalls : resources[i].op \in {"munmap", "unbind"}})
EnableCalled == monitor_life.enable.out.kind # "none"
EnableReturned == monitor_life.enable.out.kind = "returned"

\* C21: enable_monitor returns the page and the port xc_monitor_enable handed back
\* whenever that page is not null, whatever errno holds; when the page is null
\* it fails as "already active" when errno is EBUSY, as "no EPT" when errno is
\* ENODEV, and otherwise as the generic failure that carries errno; a null page
\* is never returned as success.
C21_EnableMonitorOutcomes ==
  EnableCalled =>
    LET xc_result == monitor_life.enable.xc
        out == monitor_life.enable.out
    IN  /\ xc_result.ring_page # NULL =>
             out = [kind |-> "returned", ring_page |-> xc_result.ring_page,
                    port |-> xc_result.port]
        /\ (xc_result.ring_page = NULL /\ xc_result.errno = "EBUSY") =>
             /\ out.kind = "threw"
             /\ out.what = "Monitoring is already active for this domain!"
        /\ (xc_result.ring_page = NULL /\ xc_result.errno = "ENODEV") =>
             /\ out.kind = "threw"
             /\ out.what = "This domain does not support EPT!"
        /\ (xc_result.ring_page = NULL /\ xc_result.errno \notin {"EBUSY", "ENODEV"}) =>
             /\ out.kind = "threw"
             /\ out.what = "Failed to enable monitoring: "
             /\ out.errno = xc_result.errno
        /\ out.kind = "returned" => out.ring_page # NULL

\* A page was handed back while errno still held EBUSY from an earlier call, and
\* before that a monitor failed to enable with ENODEV.
C21_Witness ==
  /\ EnableReturned
  /\ monitor_life.enable.xc.errno = "EBUSY"
  /\ \E i \in 1..Len(resources) :
       /\ i < monitor_life.first
       /\ resources[i].op = "xc_monitor_enable"
       /\ resources[i].ring_page = NULL

\* C25: a destroyed monitor has unbound its port exactly once and unmapped its
\* ring page exactly once, and released nothing else; a monitor whose
\* construction failed after enable_monitor succeeded has unmapped the ring page
\* exactly once and unbound nothing; one whose enable_monitor failed has
\* released nothing; a live monitor has released nothing yet.
C25_ReleasedTogether ==
  /\ monitor_life.phase = "destroyed" =>
       /\ NumUnbind = 1
       /\ NumUnbindOf(resources[Len(resources) - 1].port) = 1
       /\ NumMunmap(monitor_life.enable.out.ring_page) = 1
       /\ NumReleases = 2
       /\ \E i \in OwnCalls :
            /\ resources[i].op = "bind_interdomain"
            /\ resources[i].local = resources[Len(resources) - 1].port
  /\ (monitor_life.phase = "failed" /\ EnableReturned) =>
       /\ NumMunmap(monitor_life.enable.out.ring_page) = 1
       /\ NumUnbind = 0
       /\ NumReleases = 1
  /\ (monitor_life.phase = "failed" /\ ~EnableReturned) => NumReleases = 0
  /\ monitor_life.phase = "alive" => NumReleases = 0

\* Binding the port failed after enable_monitor had succeeded, for the second
\* monitor of the run, the first having been destroyed.
C25_Witness ==
  /\ monitor_life.phase = "failed"
  /\ EnableReturned
  /\ resources[Len(resources)].op = "munmap"
  /\ \E i \in 1..Len(resources) : i < monitor_life.first /\ resources[i].op = "unbind"

====
